---- MODULE Spec2Model ----
(***************************************************************************)
(* A model of the user CRUD service: the validator (internal/domain), the  *)
(* in-memory record store behind one sync.RWMutex (internal/repository)    *)
(* and the orchestration layer (internal/service), called by concurrent    *)
(* goroutines.  Strings are sequences of one-character strings; ids are    *)
(* the successive values of uuid.New(), numbered from 1; timestamps are    *)
(* readings of a non-decreasing clock.                                     *)
(***************************************************************************)
EXTENDS Integers, Sequences, FiniteSets, TLC

\* ------------------------------------------------------------------ bounds
\* number of goroutines calling the service
NumProcs == 2
\* number of service calls issued in one behaviour
MaxCalls == 3
\* largest clock reading
MaxTime == 2

Procs == 1..NumProcs
IDs == 1..MaxCalls

\* ----------------------------------------------------------------- strings
UpperSeq == << "A","B","C","D","E","F","G","H","I","J","K","L","M",
               "N","O","P","Q","R","S","T","U","V","W","X","Y","Z" >>
LowerSeq == << "a","b","c","d","e","f","g","h","i","j","k","l","m",
               "n","o","p","q","r","s","t","u","v","w","x","y","z" >>
UpperChars == { UpperSeq[i] : i \in 1..26 }
LowerChars == { LowerSeq[i] : i \in 1..26 }
Letters == UpperChars \cup LowerChars
Digits == { "0","1","2","3","4","5","6","7","8","9" }
WhiteSpace == { " ", "\t", "\n", "\r" }

\* ToLower that swaps the case of a letter
ToLowerChar_Swap(c) ==
    IF c \in UpperChars
    THEN LowerSeq[CHOOSE i \in 1..26 : UpperSeq[i] = c]
    ELSE IF c \in LowerChars
    THEN UpperSeq[CHOOSE i \in 1..26 : LowerSeq[i] = c]
    ELSE c

\* strings.ToLower, one character
ToLowerChar(c) ==
    IF c \in UpperChars
    THEN LowerSeq[CHOOSE i \in 1..26 : UpperSeq[i] = c]
    ELSE c

\* strings.ToLower
ToLower(s) == [ i \in 1..Len(s) |-> ToLowerChar(s[i]) ]

\* TrimSpace that drops the leading white space only
TrimSpace_Leading(s) ==
    LET keep == { i \in 1..Len(s) : s[i] \notin WhiteSpace }
    IN  IF keep = {} THEN << >>
        ELSE SubSeq(s, CHOOSE i \in keep : \A j \in keep : i <= j, Len(s))

\* strings.TrimSpace: drops the leading and the trailing white space
TrimSpace(s) ==
    LET keep == { i \in 1..Len(s) : s[i] \notin WhiteSpace }
    IN  IF keep = {} THEN << >>
        ELSE LET lo == CHOOSE i \in keep : \A j \in keep : i <= j
                 hi == CHOOSE i \in keep : \A j \in keep : j <= i
             IN  SubSeq(s, lo, hi)

\* a pattern that leaves the interior of the name unchecked
nameRegex_AnyInterior(s) ==
    /\ Len(s) >= 2
    /\ Len(s) <= 50
    /\ s[1] \in Letters
    /\ s[Len(s)] \in Letters

\* `^[A-Za-z][A-Za-z ]{0,48}[A-Za-z]$`
nameRegex(s) ==
    /\ Len(s) >= 2
    /\ Len(s) <= 50
    /\ s[1] \in Letters
    /\ s[Len(s)] \in Letters
    /\ \A i \in 2..(Len(s) - 1) : s[i] \in Letters \cup {" "}

\* `^[a-zA-Z0-9._%+-]+@[a-zA-Z0-9.-]+\.[a-zA-Z]{2,}$`
emailRegex(s) ==
    \E at \in 2..Len(s) : \E dot \in (at + 2)..(Len(s) - 2) :
        /\ \A i \in 1..(at - 1) : s[i] \in Letters \cup Digits \cup {".", "_", "%", "+", "-"}
        /\ s[at] = "@"
        /\ \A i \in (at + 1)..(dot - 1) : s[i] \in Letters \cup Digits \cup {".", "-"}
        /\ s[dot] = "."
        /\ \A i \in (dot + 1)..Len(s) : s[i] \in Letters

\* ------------------------------------------------------------------ domain
ErrNil == "nil"
ErrInvalidUserName == "ErrInvalidUserName"
ErrInvalidUserEmail == "ErrInvalidUserEmail"
ErrInvalidUserAge == "ErrInvalidUserAge"
ErrNotFound == "ErrNotFound"
ErrAlreadyExists == "ErrAlreadyExists"

\* type User struct; a nil *User is the record with ID 0
User(id, name, email, age, createdAt, updatedAt) ==
    [ ID |-> id, Name |-> name, Email |-> email, Age |-> age,
      CreatedAt |-> createdAt, UpdatedAt |-> updatedAt ]

NilUser == User(0, << >>, << >>, 0, 0, 0)

\* Validate that checks the trimmed name but keeps the name as typed
Validate_KeepName(u) ==
    LET name == TrimSpace(u.Name)
        email == TrimSpace(ToLower(u.Email))
        u2 == [u EXCEPT !.Email = email]
    IN  IF Len(name) < 2 \/ Len(name) > 50 \/ ~nameRegex(name)
        THEN [err |-> ErrInvalidUserName, user |-> u]
        ELSE IF ~emailRegex(email)
        THEN [err |-> ErrInvalidUserEmail, user |-> u2]
        ELSE IF u.Age < 1 \/ u.Age > 150
        THEN [err |-> ErrInvalidUserAge, user |-> u2]
        ELSE [err |-> ErrNil, user |-> u2]

\* Validate that refuses the age 150
Validate_AgeBelow150(u) ==
    LET name == TrimSpace(u.Name)
        u1 == [u EXCEPT !.Name = name]
        email == TrimSpace(ToLower(u.Email))
        u2 == [u1 EXCEPT !.Email = email]
    IN  IF Len(name) < 2 \/ Len(name) > 50 \/ ~nameRegex(name)
        THEN [err |-> ErrInvalidUserName, user |-> u1]
        ELSE IF ~emailRegex(email)
        THEN [err |-> ErrInvalidUserEmail, user |-> u2]
        ELSE IF u.Age < 1 \/ u.Age >= 150
        THEN [err |-> ErrInvalidUserAge, user |-> u2]
        ELSE [err |-> ErrNil, user |-> u2]

\* Validate that checks the age before the name and the email
Validate_AgeFirst(u) ==
    LET name == TrimSpace(u.Name)
        u1 == [u EXCEPT !.Name = name]
        email == TrimSpace(ToLower(u.Email))
        u2 == [u1 EXCEPT !.Email = email]
    IN  IF u.Age < 1 \/ u.Age > 150
        THEN [err |-> ErrInvalidUserAge, user |-> u2]
        ELSE IF Len(name) < 2 \/ Len(name) > 50 \/ ~nameRegex(name)
        THEN [err |-> ErrInvalidUserName, user |-> u1]
        ELSE IF ~emailRegex(email)
        THEN [err |-> ErrInvalidUserEmail, user |-> u2]
        ELSE [err |-> ErrNil, user |-> u2]

\* Validate without strings.ToLower on the email
Validate_NoLower(u) ==
    LET name == TrimSpace(u.Name)
        u1 == [u EXCEPT !.Name = name]
        email == TrimSpace(u.Email)
        u2 == [u1 EXCEPT !.Email = email]
    IN  IF Len(name) < 2 \/ Len(name) > 50 \/ ~nameRegex(name)
        THEN [err |-> ErrInvalidUserName, user |-> u1]
        ELSE IF ~emailRegex(email)
        THEN [err |-> ErrInvalidUserEmail, user |-> u2]
        ELSE IF u.Age < 1 \/ u.Age > 150
        THEN [err |-> ErrInvalidUserAge, user |-> u2]
        ELSE [err |-> ErrNil, user |-> u2]

\* Validate without the age check
Validate_NoAge(u) ==
    LET name == TrimSpace(u.Name)
        u1 == [u EXCEPT !.Name = name]
        email == TrimSpace(ToLower(u.Email))
        u2 == [u1 EXCEPT !.Email = email]
    IN  IF Len(name) < 2 \/ Len(name) > 50 \/ ~nameRegex(name)
        THEN [err |-> ErrInvalidUserName, user |-> u1]
        ELSE IF ~emailRegex(email)
        THEN [err |-> ErrInvalidUserEmail, user |-> u2]
        ELSE [err |-> ErrNil, user |-> u2]

\* (*User).Validate: the error, and the receiver as the call leaves it
Validate(u) ==
    LET name == TrimSpace(u.Name)
        u1 == [u EXCEPT !.Name = name]
        email == TrimSpace(ToLower(u.Email))
        u2 == [u1 EXCEPT !.Email = email]
    IN  IF Len(name) < 2 \/ Len(name) > 50
        THEN [err |-> ErrInvalidUserName, user |-> u1]
        ELSE IF ~nameRegex(name)
        THEN [err |-> ErrInvalidUserName, user |-> u1]
        ELSE IF ~emailRegex(email)
        THEN [err |-> ErrInvalidUserEmail, user |-> u2]
        ELSE IF u.Age < 1 \/ u.Age > 150
        THEN [err |-> ErrInvalidUserAge, user |-> u2]
        ELSE [err |-> ErrNil, user |-> u2]

\* NewUser that drops Validate's error
NewUser_IgnoreError(id, name, email, age, now) ==
    [err |-> ErrNil, user |-> Validate(User(id, name, email, age, now, now)).user]

\* NewUser: the error and the *User it returns (nil on error)
NewUser(id, name, email, age, now) ==
    LET v == Validate(User(id, name, email, age, now, now))
    IN  IF v.err # ErrNil THEN [err |-> v.err, user |-> NilUser]
        ELSE [err |-> ErrNil, user |-> v.user]

\* Clone that forgets a field
Clone_DropAge(u) == User(u.ID, u.Name, u.Email, 0, u.CreatedAt, u.UpdatedAt)

\* (*User).Clone
Clone(u) == User(u.ID, u.Name, u.Email, u.Age, u.CreatedAt, u.UpdatedAt)

\* ------------------------------------------------------------------ inputs
\* the (name, email, age) triples the callers pass
UserData ==
    { [name |-> <<"J","o">>,         email |-> <<"A","@","b",".","i","o">>,     age |-> 30],
      [name |-> <<" ","A","l"," ">>, email |-> <<" ","a","@","B",".","i","o">>, age |-> 25],
      [name |-> <<"J","o">>,         email |-> <<"c","@","b",".","i","o">>,     age |-> 31],
      [name |-> <<"J">>,             email |-> <<"c","@","b",".","i","o">>,     age |-> 30],
      [name |-> <<"J","o">>,         email |-> <<"a","@","b">>,                 age |-> 30],
      [name |-> <<"J","o">>,         email |-> <<"A","@","b",".","i","o">>,     age |-> -1] }

\* ------------------------------------------------------------------- state
VARIABLES
    users,      \* InMemoryUserRepository.users: id -> User
    emails,     \* InMemoryUserRepository.emails: email -> id
    mu,         \* InMemoryUserRepository.mu: the writer (0: none) and the readers
    clock,      \* the last reading of time.Now()
    nextId,     \* the number of the next uuid.New()
    calls,      \* the number of service calls issued so far
    pc,         \* where each goroutine is
    call,       \* the service call each goroutine issued last, with its arguments
    user,       \* the *User a call is working on (user, updatedUser)
    existing,   \* UpdateUser's existingUser
    old,        \* the stored *User a mutation found (Update's oldUser, Delete's user)
    ret,        \* what each goroutine's last call returned
    created,    \* history: id -> the record its CreateUser returned
    written,    \* history: id -> the record its last successful create or update returned
    updOk,      \* history: id -> number of successful updates
    delOk,      \* history: id -> number of successful deletes
    abs,        \* history: the two maps as the calls that have taken effect, run one
                \* after another, leave them
    heap,       \* the User objects allocated so far, by address
    ptrs,       \* InMemoryUserRepository.users as it is in memory: id -> address
    held        \* the addresses of the objects that callers hold

vars == << users, emails, mu, clock, nextId, calls, pc, call, user, existing, old, ret,
           created, written, updOk, delOk, abs, heap, ptrs, held >>

store == << users, emails >>
locals == << user, existing, old >>
history == << created, written, updOk, delOk, abs >>
objects == << heap, ptrs, held >>

\* m[k] = v
MapPut(m, k, v) == [ x \in DOMAIN m \cup {k} |-> IF x = k THEN v ELSE m[x] ]
\* delete that empties the map
MapDel_All(m, k) == [ x \in {} |-> m[x] ]

\* delete(m, k)
MapDel(m, k) == [ x \in DOMAIN m \ {k} |-> m[x] ]

EmptyMap == [ x \in {} |-> 0 ]

NoCall == [op |-> "none", id |-> 0, name |-> << >>, email |-> << >>, age |-> 0, live |-> FALSE, gone |-> FALSE]
NoRet == [err |-> "pending", user |-> NilUser, all |-> {}, n |-> 0]
Ret(err, u) == [err |-> err, user |-> u, all |-> {}, n |-> 0]

\* NewInMemoryUserRepository, NewUserService, and goroutines that have called nothing
Init ==
    /\ users = EmptyMap
    /\ emails = EmptyMap
    /\ mu = [w |-> 0, r |-> {}]
    /\ clock = 0
    /\ nextId = 1
    /\ calls = 0
    /\ pc = [p \in Procs |-> "idle"]
    /\ call = [p \in Procs |-> NoCall]
    /\ user = [p \in Procs |-> NilUser]
    /\ existing = [p \in Procs |-> NilUser]
    /\ old = [p \in Procs |-> NilUser]
    /\ ret = [p \in Procs |-> NoRet]
    /\ created = EmptyMap
    /\ written = EmptyMap
    /\ updOk = [i \in IDs |-> 0]
    /\ delOk = [i \in IDs |-> 0]
    /\ abs = [users |-> EmptyMap, emails |-> EmptyMap]
    /\ heap = EmptyMap
    /\ ptrs = EmptyMap
    /\ held = {}

\* RLock that does not wait for the writer
CanRLock_NoWait == TRUE

\* Lock that waits for the writer only, not for the readers
CanLock_IgnoreReaders == mu.w = 0

\* Lock that does not wait
CanLock_NoExclusion == TRUE

\* sync.RWMutex: Lock waits for the writer and the readers to leave, RLock for the writer
CanLock == mu.w = 0 /\ mu.r = {}
CanRLock == mu.w = 0
Lock(p) == [mu EXCEPT !.w = p]
Unlock == [mu EXCEPT !.w = 0]
RLock(p) == [mu EXCEPT !.r = @ \cup {p}]
RUnlock(p) == [mu EXCEPT !.r = @ \ {p}]

\* time.Now().UTC(): the clock never goes back
Now == { t \in clock..(clock + 1) : t <= MaxTime }

\* a call returns: its locals die
Return(p, r) ==
    /\ pc' = [pc EXCEPT ![p] = "idle"]
    /\ ret' = [ret EXCEPT ![p] = r]
    /\ user' = [user EXCEPT ![p] = NilUser]
    /\ existing' = [existing EXCEPT ![p] = NilUser]
    /\ old' = [old EXCEPT ![p] = NilUser]

\* a goroutine issues a call
Issue(p, c) ==
    /\ pc[p] = "idle"
    /\ calls < MaxCalls
    /\ calls' = calls + 1
    /\ call' = [call EXCEPT ![p] = c]

\* the ids a caller may pass: those handed out so far and one that was not
KnownIDs == { i \in IDs : i <= nextId }

\* ------------------------------------- the repository, one call after another
\* What each method of InMemoryUserRepository answers, and the maps it leaves, when it
\* runs alone from its Lock to its Unlock on the maps st.users and st.emails.
SeqRet(err, u, st) == [err |-> err, user |-> u, all |-> {}, n |-> 0, store |-> st]

\* Create
SeqCreate(st, u) ==
    IF u.ID \in DOMAIN st.users THEN SeqRet(ErrAlreadyExists, NilUser, st)
    ELSE IF u.Email \in DOMAIN st.emails THEN SeqRet(ErrAlreadyExists, NilUser, st)
    ELSE SeqRet(ErrNil, u, [users |-> MapPut(st.users, u.ID, u),
                            emails |-> MapPut(st.emails, u.Email, u.ID)])

\* GetByID
SeqGetByID(st, id) ==
    IF id \notin DOMAIN st.users THEN SeqRet(ErrNotFound, NilUser, st)
    ELSE SeqRet(ErrNil, Clone(st.users[id]), st)

\* GetByEmail
SeqGetByEmail(st, email) ==
    IF email \notin DOMAIN st.emails THEN SeqRet(ErrNotFound, NilUser, st)
    ELSE IF st.emails[email] \notin DOMAIN st.users THEN SeqRet("panic", NilUser, st)
    ELSE SeqRet(ErrNil, Clone(st.users[st.emails[email]]), st)

\* GetAll
SeqGetAll(st) ==
    [err |-> ErrNil, user |-> NilUser, all |-> { Clone(st.users[i]) : i \in DOMAIN st.users },
     n |-> Cardinality(DOMAIN st.users), store |-> st]

\* Count
SeqCount(st) ==
    [err |-> ErrNil, user |-> NilUser, all |-> {}, n |-> Cardinality(DOMAIN st.users),
     store |-> st]

\* Update
SeqUpdate(st, u) ==
    IF u.ID \notin DOMAIN st.users THEN SeqRet(ErrNotFound, NilUser, st)
    ELSE LET oldUser == st.users[u.ID]
         IN  IF oldUser.Email = u.Email
             THEN SeqRet(ErrNil, u, [st EXCEPT !.users = MapPut(@, u.ID, Clone(u))])
             ELSE IF u.Email \in DOMAIN st.emails /\ st.emails[u.Email] # u.ID
             THEN SeqRet(ErrAlreadyExists, NilUser, st)
             ELSE SeqRet(ErrNil, u,
                         [users |-> MapPut(st.users, u.ID, Clone(u)),
                          emails |-> MapPut(MapDel(st.emails, oldUser.Email), u.Email, u.ID)])

\* Delete
SeqDelete(st, id) ==
    IF id \notin DOMAIN st.users THEN SeqRet(ErrNotFound, NilUser, st)
    ELSE SeqRet(ErrNil, NilUser, [users |-> MapDel(st.users, id),
                                  emails |-> MapDel(st.emails, st.users[id].Email)])

\* ------------------------------------------------------ UserService.CreateUser
\* uuid.New(), NewUser (time.Now and Validate); returns on a validation error
CreateUser(p) ==
    \E d \in UserData : \E now \in Now :
        LET id == nextId
            nu == NewUser(id, d.name, d.email, d.age, now)
        IN  /\ Issue(p, [op |-> "CreateUser", id |-> id, name |-> d.name,
                         email |-> d.email, age |-> d.age, live |-> FALSE, gone |-> FALSE])
            /\ nextId' = nextId + 1
            /\ clock' = now
            /\ IF nu.err # ErrNil
               THEN Return(p, Ret(nu.err, NilUser))
               ELSE /\ pc' = [pc EXCEPT ![p] = "Create_Lock"]
                    /\ user' = [user EXCEPT ![p] = nu.user]
                    /\ ret' = [ret EXCEPT ![p] = NoRet]
                    /\ UNCHANGED << existing, old >>
            /\ UNCHANGED << users, emails, mu, history, objects >>

\* Create: r.mu.Lock()
Create_Lock(p) ==
    /\ pc[p] = "Create_Lock"
    /\ CanLock
    /\ mu' = Lock(p)
    /\ pc' = [pc EXCEPT ![p] = "Create_Check"]
    /\ UNCHANGED << users, emails, clock, nextId, calls, call, locals, ret, history, objects >>

\* Create that looks only at the email index
CreateConflict_EmailOnly(u) == u.Email \in DOMAIN emails

\* Create that refuses once any email is indexed
CreateConflict_AnyEmail(u) == u.ID \in DOMAIN users \/ DOMAIN emails # {}

\* Create that checks the id only
CreateConflict_IdOnly(u) == u.ID \in DOMAIN users

\* Create: is the id present, or the email indexed?
CreateConflict(u) == u.ID \in DOMAIN users \/ u.Email \in DOMAIN emails

\* Create: the two existence checks; on a conflict the deferred Unlock and the return
Create_Check(p) ==
    /\ pc[p] = "Create_Check"
    /\ IF CreateConflict(user[p])
       THEN /\ mu' = Unlock
            /\ Return(p, Ret(ErrAlreadyExists, NilUser))
       ELSE /\ pc' = [pc EXCEPT ![p] = "Create_Insert"]
            /\ UNCHANGED << mu, locals, ret >>
    /\ UNCHANGED << users, emails, clock, nextId, calls, call, history, objects >>

\* Create: r.users[user.ID] = user.Clone()
Create_Insert(p) ==
    /\ pc[p] = "Create_Insert"
    /\ users' = MapPut(users, user[p].ID, Clone(user[p]))
    /\ pc' = [pc EXCEPT ![p] = "Create_Index"]
    /\ UNCHANGED << emails, mu, clock, nextId, calls, call, locals, ret, history, objects >>

\* Create that does not index the email
Create_Index_NoEmail(p) ==
    /\ pc[p] = "Create_Index"
    /\ mu' = Unlock
    /\ created' = MapPut(created, user[p].ID, user[p])
    /\ written' = MapPut(written, user[p].ID, user[p])
    /\ abs' = SeqCreate(abs, user[p]).store
    /\ Return(p, Ret(ErrNil, user[p]))
    /\ UNCHANGED << users, emails, clock, nextId, calls, call, updOk, delOk, objects >>

\* Create: r.emails[user.Email] = user.ID, the deferred Unlock, and CreateUser returns user
Create_Index(p) ==
    /\ pc[p] = "Create_Index"
    /\ emails' = MapPut(emails, user[p].Email, user[p].ID)
    /\ mu' = Unlock
    /\ created' = MapPut(created, user[p].ID, user[p])
    /\ written' = MapPut(written, user[p].ID, user[p])
    /\ abs' = SeqCreate(abs, user[p]).store
    /\ Return(p, Ret(ErrNil, user[p]))
    /\ UNCHANGED << users, clock, nextId, calls, call, updOk, delOk, objects >>

\* ------------------------------------------------------------ reads
\* GetByID that ignores `exists`
GetByID_NoCheck(id) ==
    Ret(ErrNil, IF id \in DOMAIN users THEN Clone(users[id]) ELSE NilUser)

\* GetByID between RLock and RUnlock: the *User and the error
GetByID(id) ==
    IF id \notin DOMAIN users THEN Ret(ErrNotFound, NilUser)
    ELSE Ret(ErrNil, Clone(users[id]))

\* GetByEmail between RLock and RUnlock; `panic` is the nil dereference of user.Clone()
GetByEmail(email) ==
    IF email \notin DOMAIN emails THEN Ret(ErrNotFound, NilUser)
    ELSE IF emails[email] \notin DOMAIN users THEN Ret("panic", NilUser)
    ELSE Ret(ErrNil, Clone(users[emails[email]]))

\* GetAll whose loop misses one record
GetAll_SkipFirst ==
    LET ids == { i \in DOMAIN users : \E j \in DOMAIN users : j < i }
    IN  [err |-> ErrNil, user |-> NilUser, all |-> { Clone(users[i]) : i \in ids },
         n |-> Cardinality(ids)]

\* GetAll between RLock and RUnlock: the clones, in no order
GetAll == [err |-> ErrNil, user |-> NilUser, all |-> { Clone(users[i]) : i \in DOMAIN users },
           n |-> Cardinality(DOMAIN users)]

\* Count between RLock and RUnlock: len(r.users)
Count == [err |-> ErrNil, user |-> NilUser, all |-> {}, n |-> Cardinality(DOMAIN users)]

\* the emails a caller may look up: as typed, and normalized
EmailArgs == { d.email : d \in UserData } \cup { TrimSpace(ToLower(d.email)) : d \in UserData }

\* a read call is issued: GetUser, GetUserByEmail, GetAllUsers, CountUsers
IssueRead(p, c, at) ==
    /\ Issue(p, c)
    /\ pc' = [pc EXCEPT ![p] = at]
    /\ ret' = [ret EXCEPT ![p] = NoRet]
    /\ UNCHANGED << users, emails, mu, clock, nextId, locals, history, objects >>

\* r.mu.RLock()
ReadLock(p, at, to) ==
    /\ pc[p] = at
    /\ CanRLock
    /\ mu' = RLock(p)
    /\ pc' = [pc EXCEPT ![p] = to]
    /\ UNCHANGED << users, emails, clock, nextId, calls, call, locals, ret, history, objects >>

\* a read that drops the record it looked at
ReadReturn_Evict(p, at, r) ==
    /\ pc[p] = at
    /\ mu' = RUnlock(p)
    /\ users' = MapDel(users, call[p].id)
    /\ Return(p, r)
    /\ UNCHANGED << emails, clock, nextId, calls, call, history, objects >>

\* the read itself, the deferred RUnlock, and the return
ReadReturn(p, at, r) ==
    /\ pc[p] = at
    /\ mu' = RUnlock(p)
    /\ Return(p, r)
    /\ UNCHANGED << users, emails, clock, nextId, calls, call, history, objects >>

GetUser(p) ==
    \E id \in KnownIDs :
        IssueRead(p, [NoCall EXCEPT !.op = "GetUser", !.id = id, !.live = id \in DOMAIN users],
                  "GetByID_RLock")
GetByID_RLock(p) == ReadLock(p, "GetByID_RLock", "GetByID_Read")
GetByID_Read(p) == ReadReturn(p, "GetByID_Read", GetByID(call[p].id))

GetUserByEmail(p) ==
    \E e \in EmailArgs :
        IssueRead(p, [NoCall EXCEPT !.op = "GetUserByEmail", !.email = e], "GetByEmail_RLock")
GetByEmail_RLock(p) == ReadLock(p, "GetByEmail_RLock", "GetByEmail_Read")
GetByEmail_Read(p) == ReadReturn(p, "GetByEmail_Read", GetByEmail(call[p].email))

GetAllUsers(p) == IssueRead(p, [NoCall EXCEPT !.op = "GetAllUsers"], "GetAll_RLock")
GetAll_RLock(p) == ReadLock(p, "GetAll_RLock", "GetAll_Read")
GetAll_Read(p) == ReadReturn(p, "GetAll_Read", GetAll)

CountUsers(p) == IssueRead(p, [NoCall EXCEPT !.op = "CountUsers"], "Count_RLock")
Count_RLock(p) == ReadLock(p, "Count_RLock", "Count_Read")
Count_Read(p) == ReadReturn(p, "Count_Read", Count)

\* ------------------------------------------------------ UserService.UpdateUser
UpdateUser(p) ==
    \E id \in KnownIDs : \E d \in UserData :
        /\ Issue(p, [op |-> "UpdateUser", id |-> id, name |-> d.name, email |-> d.email,
                     age |-> d.age, live |-> id \in DOMAIN users, gone |-> delOk[id] > 0])
        /\ pc' = [pc EXCEPT ![p] = "Update_RLock"]
        /\ ret' = [ret EXCEPT ![p] = NoRet]
        /\ UNCHANGED << users, emails, mu, clock, nextId, locals, history, objects >>

\* s.repo.GetByID(id): r.mu.RLock()
Update_RLock(p) == ReadLock(p, "Update_RLock", "Update_GetByID")

\* UpdateUser that validates its arguments before it looks at the result of the read
Update_GetByID_ValidateFirst(p) ==
    /\ pc[p] = "Update_GetByID"
    /\ mu' = RUnlock(p)
    /\ LET g == GetByID(call[p].id)
           v == Validate(User(call[p].id, call[p].name, call[p].email, call[p].age, 0, 0))
       IN  IF v.err # ErrNil
           THEN Return(p, Ret(v.err, NilUser))
           ELSE IF g.err # ErrNil
           THEN Return(p, Ret(g.err, NilUser))
           ELSE /\ existing' = [existing EXCEPT ![p] = g.user]
                /\ pc' = [pc EXCEPT ![p] = "Update_Build"]
                /\ UNCHANGED << user, old, ret >>
    /\ UNCHANGED << users, emails, clock, nextId, calls, call, history, objects >>

\* s.repo.GetByID(id): the read, the deferred RUnlock; UpdateUser returns on an error
Update_GetByID(p) ==
    /\ pc[p] = "Update_GetByID"
    /\ mu' = RUnlock(p)
    /\ LET g == GetByID(call[p].id)
       IN  IF g.err # ErrNil
           THEN Return(p, Ret(g.err, NilUser))
           ELSE /\ existing' = [existing EXCEPT ![p] = g.user]
                /\ pc' = [pc EXCEPT ![p] = "Update_Build"]
                /\ UNCHANGED << user, old, ret >>
    /\ UNCHANGED << users, emails, clock, nextId, calls, call, history, objects >>

\* updatedUser with CreatedAt set to time.Now()
UpdatedUser_NewCreatedAt(c, existingUser, now) ==
    User(c.id, c.name, c.email, c.age, now, now)

\* updatedUser stamped one tick before the creation instead of with time.Now()
UpdatedUser_StaleStamp(c, existingUser, now) ==
    User(c.id, c.name, c.email, c.age, existingUser.CreatedAt, existingUser.CreatedAt - 1)

\* updatedUser := &domain.User{...}: the arguments, existingUser.CreatedAt and time.Now()
UpdatedUser(c, existingUser, now) ==
    User(c.id, c.name, c.email, c.age, existingUser.CreatedAt, now)

\* updatedUser is built and validated; UpdateUser returns on an error
Update_Build(p) ==
    /\ pc[p] = "Update_Build"
    /\ \E now \in Now :
        LET v == Validate(UpdatedUser(call[p], existing[p], now))
        IN  /\ clock' = now
            /\ IF v.err # ErrNil
               THEN Return(p, Ret(v.err, NilUser))
               ELSE /\ user' = [user EXCEPT ![p] = v.user]
                    /\ pc' = [pc EXCEPT ![p] = "Update_Lock"]
                    /\ UNCHANGED << existing, old, ret >>
    /\ UNCHANGED << users, emails, mu, nextId, calls, call, history, objects >>

\* Update: r.mu.Lock()
Update_Lock(p) ==
    /\ pc[p] = "Update_Lock"
    /\ CanLock
    /\ mu' = Lock(p)
    /\ pc' = [pc EXCEPT ![p] = "Update_Check"]
    /\ UNCHANGED << users, emails, clock, nextId, calls, call, locals, ret, history, objects >>

\* Update without the email check
UpdateConflict_None(oldUser, u) == FALSE

\* Update that refuses every indexed email, the record's own too
UpdateConflict_NoSelf(oldUser, u) == u.Email \in DOMAIN emails

\* Update: does the email change to one that is indexed under another id?
UpdateConflict(oldUser, u) ==
    /\ oldUser.Email # u.Email
    /\ u.Email \in DOMAIN emails
    /\ emails[u.Email] # u.ID

\* Update without the existence check: a missing record is written anew
Update_Check_Upsert(p) ==
    /\ pc[p] = "Update_Check"
    /\ LET oldUser == IF user[p].ID \in DOMAIN users THEN users[user[p].ID] ELSE existing[p]
       IN  IF UpdateConflict(oldUser, user[p])
           THEN /\ mu' = Unlock
                /\ Return(p, Ret(ErrAlreadyExists, NilUser))
           ELSE /\ old' = [old EXCEPT ![p] = oldUser]
                /\ pc' = [pc EXCEPT ![p] = IF oldUser.Email # user[p].Email
                                             THEN "Update_Unindex" ELSE "Update_Store"]
                /\ UNCHANGED << mu, user, existing, ret >>
    /\ UNCHANGED << users, emails, clock, nextId, calls, call, history, objects >>

\* Update: the existence check and the email check; on an error the deferred Unlock
\* and the return
Update_Check(p) ==
    /\ pc[p] = "Update_Check"
    /\ IF user[p].ID \notin DOMAIN users
       THEN /\ mu' = Unlock
            /\ Return(p, Ret(ErrNotFound, NilUser))
       ELSE LET oldUser == users[user[p].ID]
            IN  IF UpdateConflict(oldUser, user[p])
                THEN /\ mu' = Unlock
                     /\ Return(p, Ret(ErrAlreadyExists, NilUser))
                ELSE /\ old' = [old EXCEPT ![p] = oldUser]
                     /\ pc' = [pc EXCEPT ![p] = IF oldUser.Email # user[p].Email
                                                  THEN "Update_Unindex" ELSE "Update_Store"]
                     /\ UNCHANGED << mu, user, existing, ret >>
    /\ UNCHANGED << users, emails, clock, nextId, calls, call, history, objects >>

\* Update that leaves the old email indexed
Update_Unindex_Keep(p) ==
    /\ pc[p] = "Update_Unindex"
    /\ pc' = [pc EXCEPT ![p] = "Update_Index"]
    /\ UNCHANGED << users, emails, mu, clock, nextId, calls, call, locals, ret, history, objects >>

\* Update: delete(r.emails, oldUser.Email)
Update_Unindex(p) ==
    /\ pc[p] = "Update_Unindex"
    /\ emails' = MapDel(emails, old[p].Email)
    /\ pc' = [pc EXCEPT ![p] = "Update_Index"]
    /\ UNCHANGED << users, mu, clock, nextId, calls, call, locals, ret, history, objects >>

\* Update: r.emails[user.Email] = user.ID
Update_Index(p) ==
    /\ pc[p] = "Update_Index"
    /\ emails' = MapPut(emails, user[p].Email, user[p].ID)
    /\ pc' = [pc EXCEPT ![p] = "Update_Store"]
    /\ UNCHANGED << users, mu, clock, nextId, calls, call, locals, ret, history, objects >>

\* Update that stores the new record with the old age
Update_Store_KeepAge(p) ==
    /\ pc[p] = "Update_Store"
    /\ users' = MapPut(users, user[p].ID, [Clone(user[p]) EXCEPT !.Age = old[p].Age])
    /\ mu' = Unlock
    /\ updOk' = [updOk EXCEPT ![user[p].ID] = @ + 1]
    /\ written' = MapPut(written, user[p].ID, user[p])
    /\ abs' = SeqUpdate(abs, user[p]).store
    /\ Return(p, Ret(ErrNil, user[p]))
    /\ UNCHANGED << emails, clock, nextId, calls, call, created, delOk, objects >>

\* Update: r.users[user.ID] = user.Clone(), the deferred Unlock; UpdateUser returns updatedUser
Update_Store(p) ==
    /\ pc[p] = "Update_Store"
    /\ users' = MapPut(users, user[p].ID, Clone(user[p]))
    /\ mu' = Unlock
    /\ updOk' = [updOk EXCEPT ![user[p].ID] = @ + 1]
    /\ written' = MapPut(written, user[p].ID, user[p])
    /\ abs' = SeqUpdate(abs, user[p]).store
    /\ Return(p, Ret(ErrNil, user[p]))
    /\ UNCHANGED << emails, clock, nextId, calls, call, created, delOk, objects >>

\* ------------------------------------------------------ UserService.DeleteUser
DeleteUser(p) ==
    \E id \in KnownIDs :
        /\ Issue(p, [NoCall EXCEPT !.op = "DeleteUser", !.id = id, !.live = id \in DOMAIN users,
                                !.gone = delOk[id] > 0])
        /\ pc' = [pc EXCEPT ![p] = "Delete_Lock"]
        /\ ret' = [ret EXCEPT ![p] = NoRet]
        /\ UNCHANGED << users, emails, mu, clock, nextId, locals, history, objects >>

\* Delete: r.mu.Lock()
Delete_Lock(p) ==
    /\ pc[p] = "Delete_Lock"
    /\ CanLock
    /\ mu' = Lock(p)
    /\ pc' = [pc EXCEPT ![p] = "Delete_Check"]
    /\ UNCHANGED << users, emails, clock, nextId, calls, call, locals, ret, history, objects >>

\* Delete that reports success for an absent id
Delete_Missing_Silent(p) ==
    /\ mu' = Unlock
    /\ Return(p, Ret(ErrNil, NilUser))

\* Delete that returns ErrNotFound without the Unlock
Delete_Missing_KeepsLock(p) ==
    /\ mu' = mu
    /\ Return(p, Ret(ErrNotFound, NilUser))

\* Delete, the id is absent: the deferred Unlock, and ErrNotFound is returned
Delete_Missing(p) ==
    /\ mu' = Unlock
    /\ Return(p, Ret(ErrNotFound, NilUser))

\* Delete: user, exists := r.users[id]
Delete_Check(p) ==
    /\ pc[p] = "Delete_Check"
    /\ IF call[p].id \notin DOMAIN users
       THEN Delete_Missing(p)
       ELSE /\ old' = [old EXCEPT ![p] = users[call[p].id]]
            /\ pc' = [pc EXCEPT ![p] = "Delete_Remove"]
            /\ UNCHANGED << mu, user, existing, ret >>
    /\ UNCHANGED << users, emails, clock, nextId, calls, call, history, objects >>

\* Delete that leaves the record in the primary map
Delete_Remove_Skip(p) ==
    /\ pc[p] = "Delete_Remove"
    /\ pc' = [pc EXCEPT ![p] = "Delete_Index"]
    /\ UNCHANGED << users, emails, mu, clock, nextId, calls, call, locals, ret, history, objects >>

\* Delete: delete(r.users, id)
Delete_Remove(p) ==
    /\ pc[p] = "Delete_Remove"
    /\ users' = MapDel(users, call[p].id)
    /\ pc' = [pc EXCEPT ![p] = "Delete_Index"]
    /\ UNCHANGED << emails, mu, clock, nextId, calls, call, locals, ret, history, objects >>

\* Delete that leaves the email indexed
Delete_Index_KeepEmail(p) ==
    /\ pc[p] = "Delete_Index"
    /\ mu' = Unlock
    /\ delOk' = [delOk EXCEPT ![call[p].id] = @ + 1]
    /\ abs' = SeqDelete(abs, call[p].id).store
    /\ Return(p, Ret(ErrNil, NilUser))
    /\ UNCHANGED << users, emails, clock, nextId, calls, call, created, written, updOk, objects >>

\* Delete: delete(r.emails, user.Email), the deferred Unlock; DeleteUser returns nil
Delete_Index(p) ==
    /\ pc[p] = "Delete_Index"
    /\ emails' = MapDel(emails, old[p].Email)
    /\ mu' = Unlock
    /\ delOk' = [delOk EXCEPT ![call[p].id] = @ + 1]
    /\ abs' = SeqDelete(abs, call[p].id).store
    /\ Return(p, Ret(ErrNil, NilUser))
    /\ UNCHANGED << users, clock, nextId, calls, call, created, written, updOk, objects >>

\* ------------------------------------------------------------ specification
Next ==
    \E p \in Procs :
        \/ CreateUser(p)
        \/ Create_Lock(p)
        \/ Create_Check(p)
        \/ Create_Insert(p)
        \/ Create_Index(p)
        \/ GetUser(p)
        \/ GetByID_RLock(p)
        \/ GetByID_Read(p)
        \/ GetUserByEmail(p)
        \/ GetByEmail_RLock(p)
        \/ GetByEmail_Read(p)
        \/ GetAllUsers(p)
        \/ GetAll_RLock(p)
        \/ GetAll_Read(p)
        \/ CountUsers(p)
        \/ Count_RLock(p)
        \/ Count_Read(p)
        \/ UpdateUser(p)
        \/ Update_RLock(p)
        \/ Update_GetByID(p)
        \/ Update_Build(p)
        \/ Update_Lock(p)
        \/ Update_Check(p)
        \/ Update_Unindex(p)
        \/ Update_Index(p)
        \/ Update_Store(p)
        \/ DeleteUser(p)
        \/ Delete_Lock(p)
        \/ Delete_Check(p)
        \/ Delete_Remove(p)
        \/ Delete_Index(p)

Spec == Init /\ [][Next]_vars

\* the steps of goroutine p inside a call it has issued
Steps(p) ==
    \/ Create_Lock(p) \/ Create_Check(p) \/ Create_Insert(p) \/ Create_Index(p)
    \/ GetByID_RLock(p) \/ GetByID_Read(p)
    \/ GetByEmail_RLock(p) \/ GetByEmail_Read(p)
    \/ GetAll_RLock(p) \/ GetAll_Read(p)
    \/ Count_RLock(p) \/ Count_Read(p)
    \/ Update_RLock(p) \/ Update_GetByID(p) \/ Update_Build(p) \/ Update_Lock(p)
    \/ Update_Check(p) \/ Update_Unindex(p) \/ Update_Index(p) \/ Update_Store(p)
    \/ Delete_Lock(p) \/ Delete_Check(p) \/ Delete_Remove(p) \/ Delete_Index(p)

\* the data of the first call
FirstData == [name |-> <<"J","o">>, email |-> <<"A","@","b",".","i","o">>, age |-> 30]

\* the store after goroutine 1's CreateUser(FirstData) has returned the first record
FairInit ==
    \E d \in UserData \cap {FirstData} :
        LET nu == NewUser(1, d.name, d.email, d.age, 0)
            st == [users |-> MapPut(EmptyMap, 1, nu.user),
                   emails |-> MapPut(EmptyMap, nu.user.Email, 1)]
        IN  /\ nu.err = ErrNil
            /\ users = st.users
            /\ emails = st.emails
            /\ mu = [w |-> 0, r |-> {}]
            /\ clock = 0
            /\ nextId = 2
            /\ calls = 1
            /\ pc = [p \in Procs |-> "idle"]
            /\ call = [p \in Procs |->
                         IF p = 1
                         THEN [op |-> "CreateUser", id |-> 1, name |-> d.name,
                               email |-> d.email, age |-> d.age, live |-> FALSE,
                               gone |-> FALSE]
                         ELSE NoCall]
            /\ user = [p \in Procs |-> NilUser]
            /\ existing = [p \in Procs |-> NilUser]
            /\ old = [p \in Procs |-> NilUser]
            /\ ret = [p \in Procs |-> IF p = 1 THEN Ret(ErrNil, nu.user) ELSE NoRet]
            /\ created = st.users
            /\ written = st.users
            /\ updOk = [i \in IDs |-> 0]
            /\ delOk = [i \in IDs |-> 0]
            /\ abs = st
            /\ heap = EmptyMap
            /\ ptrs = EmptyMap
            /\ held = {}

\* The Go scheduler runs every goroutine that can run: a goroutine inside a call whose
\* next step stays possible takes it.  Nothing obliges a goroutine to issue a call.
FairSpec == FairInit /\ [][Next]_vars /\ \A p \in Procs : WF_vars(Steps(p))

\* ------------------------------------------------- the validator on its own
\* longest run of letters in a generated name
MaxNameLen == 52
\* how far the generated ages go beyond the accepted range on either side
AgeMargin == 2

\* a name of n letters, capitals and small letters in turn
LetterName(n) == [ i \in 1..n |-> IF i % 2 = 1 THEN "A" ELSE "b" ]

\* names of 0..MaxNameLen letters, bare and with white space around them, and names with
\* an inner space, two inner spaces, a digit and a symbol
NameArgs ==
    { LetterName(n) : n \in 0..MaxNameLen }
    \cup { << " ", "\t" >> \o LetterName(n) \o << " " >> : n \in 0..MaxNameLen }
    \cup { << "J", " ", "o" >>, << "J", "0" >>, << "J", "_", "o" >>,
           << "A", " ", " ", "B" >>, << "A", "1", "B" >> }

\* valid and invalid emails
EmailInputs == { << "A", "@", "b", ".", "i", "o" >>, << "a", "@", "b" >> }

\* ages around and inside the accepted range
AgeArgs == (0 - AgeMargin)..(150 + AgeMargin)

\* a candidate is built from generated data; goroutine 1 is about to validate it
ValidateInit ==
    /\ users = EmptyMap
    /\ emails = EmptyMap
    /\ mu = [w |-> 0, r |-> {}]
    /\ clock = 0
    /\ nextId = 1
    /\ calls = 0
    /\ pc = [p \in Procs |-> IF p = 1 THEN "Validate" ELSE "idle"]
    /\ \E name \in NameArgs : \E email \in EmailInputs : \E age \in AgeArgs :
          call = [p \in Procs |->
                    IF p = 1
                    THEN [NoCall EXCEPT !.op = "Validate", !.name = name,
                                        !.email = email, !.age = age]
                    ELSE NoCall]
    /\ user = [p \in Procs |-> NilUser]
    /\ existing = [p \in Procs |-> NilUser]
    /\ old = [p \in Procs |-> NilUser]
    /\ ret = [p \in Procs |-> NoRet]
    /\ created = EmptyMap
    /\ written = EmptyMap
    /\ updOk = [i \in IDs |-> 0]
    /\ delOk = [i \in IDs |-> 0]
    /\ abs = [users |-> EmptyMap, emails |-> EmptyMap]
    /\ heap = EmptyMap
    /\ ptrs = EmptyMap
    /\ held = {}

\* u.Validate(): the error, and the receiver as the call leaves it
Validate_Call(p) ==
    /\ pc[p] = "Validate"
    /\ LET v == Validate(User(call[p].id, call[p].name, call[p].email, call[p].age, 0, 0))
       IN  /\ user' = [user EXCEPT ![p] = v.user]
           /\ ret' = [ret EXCEPT ![p] = Ret(v.err, NilUser)]
    /\ pc' = [pc EXCEPT ![p] = "idle"]
    /\ UNCHANGED << users, emails, mu, clock, nextId, calls, call, existing, old, history, objects >>

\* u.Validate() once more, on a receiver that has passed it
Validate_Again(p) ==
    /\ pc[p] = "idle"
    /\ call[p].op = "Validate"
    /\ ret[p].err = ErrNil
    /\ LET v == Validate(user[p])
       IN  /\ user' = [user EXCEPT ![p] = v.user]
           /\ ret' = [ret EXCEPT ![p] = Ret(v.err, NilUser)]
    /\ pc' = [pc EXCEPT ![p] = "Validate_Again"]
    /\ UNCHANGED << users, emails, mu, clock, nextId, calls, call, existing, old, history, objects >>

ValidateNext ==
    \E p \in Procs :
        \/ Validate_Call(p)
        \/ Validate_Again(p)

SpecValidate == ValidateInit /\ [][ValidateNext]_vars

\* ---------------------------------- the store at the level of objects and pointers
\* Each call runs as one step (the lock makes it so); what is followed here is which
\* object every *User points to.
\* number of service calls issued in one behaviour of this specification
MaxObjCalls == 3

\* the address of the next object
NewAddr(h) == Cardinality(DOMAIN h) + 1

\* &User{...}: a new object; the address and the heap with the object in it
Alloc(h, u) == [addr |-> NewAddr(h), heap |-> MapPut(h, NewAddr(h), u)]

\* Clone that returns its receiver
CloneAt_Alias(h, a) == [addr |-> a, heap |-> h]

\* (*User).Clone on the object at address a
CloneAt(h, a) == Alloc(h, Clone(h[a]))

\* GetAll's loop: one clone per address of as
RECURSIVE CloneAll(_, _)
CloneAll(h, as) ==
    IF as = {} THEN [addrs |-> {}, heap |-> h]
    ELSE LET a == CHOOSE x \in as : \A y \in as : x <= y
             c == CloneAt(h, a)
             rest == CloneAll(c.heap, as \ {a})
         IN  [addrs |-> {c.addr} \cup rest.addrs, heap |-> rest.heap]

\* NewInMemoryUserRepository: empty maps, no object yet
ObjInit == Init

\* a call is issued and counted
ObjCall ==
    /\ calls < MaxObjCalls
    /\ calls' = calls + 1
    /\ UNCHANGED << users, mu, clock, pc, call, locals, ret, history >>

\* CreateUser: NewUser allocates the object, Create stores a clone of it, the caller gets
\* the object itself
Obj_CreateUser ==
    \E d \in UserData :
        LET id == nextId
            nu == NewUser(id, d.name, d.email, d.age, 0)
            a == Alloc(heap, nu.user)
            c == CloneAt(a.heap, a.addr)
        IN  /\ ObjCall
            /\ nextId' = nextId + 1
            /\ IF nu.err # ErrNil
               THEN UNCHANGED << emails, objects >>
               ELSE IF id \in DOMAIN ptrs \/ nu.user.Email \in DOMAIN emails
               THEN /\ heap' = a.heap
                    /\ UNCHANGED << emails, ptrs, held >>
               ELSE /\ heap' = c.heap
                    /\ ptrs' = MapPut(ptrs, id, c.addr)
                    /\ emails' = MapPut(emails, nu.user.Email, id)
                    /\ held' = held \cup {a.addr}

\* a read returns the clone c of a stored object to the caller
ObjReturnClone(c) ==
    /\ heap' = c.heap
    /\ held' = held \cup {c.addr}
    /\ UNCHANGED << emails, ptrs, nextId >>

\* GetUser: GetByID returns a clone of the stored object
Obj_GetUser ==
    \E id \in KnownIDs :
        /\ ObjCall
        /\ IF id \notin DOMAIN ptrs
           THEN UNCHANGED << emails, objects, nextId >>
           ELSE ObjReturnClone(CloneAt(heap, ptrs[id]))

\* GetUserByEmail: GetByEmail returns a clone of the stored object
Obj_GetUserByEmail ==
    \E e \in EmailArgs :
        /\ ObjCall
        /\ IF e \notin DOMAIN emails
           THEN UNCHANGED << emails, objects, nextId >>
           ELSE ObjReturnClone(CloneAt(heap, ptrs[emails[e]]))

\* GetAllUsers: GetAll returns a slice of clones
Obj_GetAllUsers ==
    LET cs == CloneAll(heap, { ptrs[i] : i \in DOMAIN ptrs })
    IN  /\ ObjCall
        /\ heap' = cs.heap
        /\ held' = held \cup cs.addrs
        /\ UNCHANGED << emails, ptrs, nextId >>

\* UpdateUser: GetByID's clone is existingUser, updatedUser is a new object, Update stores
\* a clone of it, the caller gets updatedUser itself
Obj_UpdateUser ==
    \E id \in KnownIDs : \E d \in UserData :
        /\ ObjCall
        /\ UNCHANGED nextId
        /\ IF id \notin DOMAIN ptrs
           THEN UNCHANGED << emails, objects >>
           ELSE LET e == CloneAt(heap, ptrs[id])
                    v == Validate(UpdatedUser([id |-> id, name |-> d.name, email |-> d.email,
                                               age |-> d.age], e.heap[e.addr], 0))
                    u == Alloc(e.heap, v.user)
                    oldUser == u.heap[ptrs[id]]
                    c == CloneAt(u.heap, u.addr)
                IN  IF v.err # ErrNil \/ UpdateConflict(oldUser, v.user)
                    THEN /\ heap' = u.heap
                         /\ UNCHANGED << emails, ptrs, held >>
                    ELSE /\ heap' = c.heap
                         /\ emails' = MapPut(MapDel(emails, oldUser.Email), v.user.Email, id)
                         /\ ptrs' = MapPut(ptrs, id, c.addr)
                         /\ held' = held \cup {u.addr}

\* DeleteUser: Delete drops the pointer and the index entry
Obj_DeleteUser ==
    \E id \in KnownIDs :
        /\ ObjCall
        /\ UNCHANGED << nextId, heap, held >>
        /\ IF id \notin DOMAIN ptrs
           THEN UNCHANGED << emails, ptrs >>
           ELSE /\ emails' = MapDel(emails, heap[ptrs[id]].Email)
                /\ ptrs' = MapDel(ptrs, id)

\* what a caller writes into the fields of an object it holds
Scribble == [ Name |-> << "X", "x" >>, Email |-> << "x", "@", "x", ".", "x", "x" >>, Age |-> 99 ]

\* a caller assigns to the exported fields of a *User it holds
Obj_Mutate ==
    \E a \in held :
        /\ heap[a].Age # Scribble.Age
        /\ heap' = [heap EXCEPT ![a].Name = Scribble.Name, ![a].Email = Scribble.Email,
                                ![a].Age = Scribble.Age]
        /\ UNCHANGED << users, emails, mu, clock, nextId, calls, pc, call, locals, ret,
                        history, ptrs, held >>

ObjNext ==
    \/ Obj_CreateUser
    \/ Obj_GetUser
    \/ Obj_GetUserByEmail
    \/ Obj_GetAllUsers
    \/ Obj_UpdateUser
    \/ Obj_DeleteUser
    \/ Obj_Mutate

SpecObjects == ObjInit /\ [][ObjNext]_vars

\* ------------------------------------------ the repository called directly
\* InMemoryUserRepository.Create with a record whose id the caller chose, as a caller
\* of the repository (not of the service, which draws a fresh uuid) can pass it
Repo_Create(p) ==
    \E id \in IDs : \E d \in UserData : \E now \in Now :
        LET nu == NewUser(id, d.name, d.email, d.age, now)
        IN  /\ nu.err = ErrNil
            /\ Issue(p, [op |-> "Create", id |-> id, name |-> d.name, email |-> d.email,
                         age |-> d.age, live |-> id \in DOMAIN users, gone |-> FALSE])
            /\ clock' = now
            /\ pc' = [pc EXCEPT ![p] = "Create_Lock"]
            /\ user' = [user EXCEPT ![p] = nu.user]
            /\ ret' = [ret EXCEPT ![p] = NoRet]
            /\ UNCHANGED << users, emails, mu, nextId, existing, old, history, objects >>

RepoNext ==
    \E p \in Procs :
        \/ Repo_Create(p)
        \/ Create_Lock(p)
        \/ Create_Check(p)
        \/ Create_Insert(p)
        \/ Create_Index(p)

SpecRepo == Init /\ [][RepoNext]_vars

\* ------------------------------------------------------------------ claims
\* the normalized form of an email: trimmed and lower-cased
NormalizedEmail(e) == TrimSpace(ToLower(e))

\* what Validate answers to the data of a call
ValidationError(c) == Validate(User(c.id, c.name, c.email, c.age, 0, 0)).err

\* goroutine p takes a step from the place `at`
Leaves(p, at) == pc[p] = at /\ pc'[p] # at

\* C1: in every state, whatever CreateUser, UpdateUser and DeleteUser calls the goroutines
\* have interleaved, no two live records have the same normalized email.
C1_UniqueEmail ==
    \A i, j \in DOMAIN users :
        i # j => NormalizedEmail(users[i].Email) # NormalizedEmail(users[j].Email)

\* two records live after a successful update of one of them
C1_Witness ==
    \E i, j \in DOMAIN users : i # j /\ updOk[i] > 0

\* the calls issued are one CreateUser per goroutine, all returned, with valid data,
\* distinct ids and one normalized email (the store was empty: nothing was indexed)
C2_Race ==
    /\ calls = NumProcs
    /\ \A p \in Procs :
        /\ pc[p] = "idle"
        /\ call[p].op = "CreateUser"
        /\ ValidationError(call[p]) = ErrNil
    /\ \A p, q \in Procs :
        /\ NormalizedEmail(call[p].email) = NormalizedEmail(call[q].email)
        /\ p # q => call[p].id # call[q].id

\* C2: when every goroutine has issued one CreateUser, with distinct ids and the same
\* normalized email, and all have returned, exactly one returned nil and every other one
\* ErrAlreadyExists, however the calls interleaved.
C2_ConcurrentCreates ==
    C2_Race =>
        /\ Cardinality({ p \in Procs : ret[p].err = ErrNil }) = 1
        /\ \A p \in Procs : ret[p].err \in {ErrNil, ErrAlreadyExists}
        /\ Cardinality(DOMAIN users) = 1

\* the race has been run, with emails that differ as typed
C2_Witness ==
    /\ C2_Race
    /\ \E p, q \in Procs : call[p].email # call[q].email /\ ret[q].err = ErrAlreadyExists

\* the goroutines whose last call, now returned, is DeleteUser(i) issued while i was live
Deleters(i) ==
    { p \in Procs : pc[p] = "idle" /\ call[p].op = "DeleteUser" /\ call[p].id = i /\ call[p].live }

\* C3: of the DeleteUser(i) calls issued while record i was live, exactly one succeeds:
\* no id is deleted successfully twice, and once such a call has returned, one delete of
\* i has succeeded, the call reported nil or ErrNotFound, and GetByID(i) is ErrNotFound.
C3_ConcurrentDeletes ==
    \A i \in IDs :
        /\ delOk[i] <= 1
        /\ Cardinality({ p \in Deleters(i) : ret[p].err = ErrNil }) <= delOk[i]
        /\ \A p \in Deleters(i) :
            /\ ret[p].err \in {ErrNil, ErrNotFound}
            /\ delOk[i] = 1
            /\ GetByID(i).err = ErrNotFound

\* two deletes of one live record have raced: one nil, one ErrNotFound
C3_Witness ==
    \E i \in IDs : \E p, q \in Deleters(i) :
        p # q /\ ret[p].err = ErrNil /\ ret[q].err = ErrNotFound

\* C4: a GetUser(id) that reads after CreateUser returned id's record, and before any
\* successful update or delete of id, returns nil and a record equal to the created one in
\* every field.
C4_RoundTrip ==
    [][ \A p \in Procs :
          ( /\ Leaves(p, "GetByID_Read")
            /\ call[p].id \in DOMAIN created
            /\ updOk[call[p].id] = 0
            /\ delOk[call[p].id] = 0 )
          => ret'[p] = Ret(ErrNil, created[call[p].id]) ]_vars

\* a GetUser has returned the created record, whose name and email were normalized
C4_Witness ==
    \E p \in Procs :
        /\ pc[p] = "idle"
        /\ call[p].op = "GetUser"
        /\ call[p].id \in DOMAIN created
        /\ ret[p] = Ret(ErrNil, created[call[p].id])
        /\ ret[p].user.Age = 25

\* a live record has the normalized email of the call's email
EmailTaken(c) ==
    \E j \in DOMAIN users : NormalizedEmail(users[j].Email) = NormalizedEmail(c.email)

\* C5: a CreateUser with valid data that reaches the store while a live record has the
\* normalized form of its email returns ErrAlreadyExists and no record, and leaves the
\* primary map, the email index and the count as they were.
C5_DuplicateEmail ==
    [][ \A p \in Procs :
          (Leaves(p, "Create_Check") /\ EmailTaken(call[p]))
          => /\ pc'[p] = "idle"
             /\ ret'[p] = Ret(ErrAlreadyExists, NilUser)
             /\ users' = users
             /\ emails' = emails
             /\ Count' = Count ]_vars

\* a create was refused for an email typed differently from the stored one
C5_Witness ==
    \E p \in Procs :
        /\ pc[p] = "idle"
        /\ call[p].op = "CreateUser"
        /\ ret[p].err = ErrAlreadyExists
        /\ \E j \in DOMAIN users :
            /\ users[j].Email # call[p].email
            /\ users[j].Email = NormalizedEmail(call[p].email)

\* goroutine p issues a CreateUser in this step
IssuesCreate(p) == call'[p] # call[p] /\ call'[p].op = "CreateUser"

\* C6: a CreateUser whose data fails validation returns the validation error and no
\* record at once, and the step changes neither map, nor Count, nor GetAll.
C6_InvalidCreate ==
    [][ \A p \in Procs :
          (IssuesCreate(p) /\ ValidationError(call'[p]) # ErrNil)
          => /\ pc'[p] = "idle"
             /\ ret'[p] = Ret(ValidationError(call'[p]), NilUser)
             /\ ret'[p].err \in {ErrInvalidUserName, ErrInvalidUserEmail, ErrInvalidUserAge}
             /\ users' = users
             /\ emails' = emails
             /\ Count' = Count
             /\ GetAll' = GetAll ]_vars

\* an invalid create has been refused while a record was live
C6_Witness ==
    \E p \in Procs :
        /\ pc[p] = "idle"
        /\ call[p].op = "CreateUser"
        /\ ret[p].err = ErrInvalidUserName
        /\ users # EmptyMap

\* the steps of UpdateUser up to and including the validation
UpdatePrefix == {"Update_RLock", "Update_GetByID", "Update_Build"}

\* C7: an UpdateUser on an existing id whose data fails validation returns the validation
\* error and no record, and no step of the call changes the store: GetByID(id) answers
\* after it what it answered before; an age below 1 with a valid name and email is
\* refused with ErrInvalidUserAge.
C7_InvalidUpdate ==
    [][ \A p \in Procs :
          /\ (pc[p] \in UpdatePrefix /\ pc'[p] # pc[p] /\ pc'[p] \in UpdatePrefix \cup {"idle"})
             => (users' = users /\ emails' = emails)
          /\ (Leaves(p, "Update_Build") /\ ValidationError(call[p]) # ErrNil)
             => /\ pc'[p] = "idle"
                /\ ret'[p] = Ret(ValidationError(call[p]), NilUser)
                /\ GetByID(call[p].id)' = GetByID(call[p].id)
          /\ ( /\ Leaves(p, "Update_Build")
               /\ call[p].age < 1
               /\ ValidationError([call[p] EXCEPT !.age = 30]) = ErrNil )
             => /\ ret'[p] = Ret(ErrInvalidUserAge, NilUser)
                /\ GetByID(call[p].id)' = GetByID(call[p].id) ]_vars

\* an update with age -1 was refused and the record still has age 30
C7_Witness ==
    \E p \in Procs :
        /\ pc[p] = "idle"
        /\ call[p].op = "UpdateUser"
        /\ call[p].age = -1
        /\ ret[p].err = ErrInvalidUserAge
        /\ call[p].id \in DOMAIN users
        /\ users[call[p].id].Age = 30

\* C8: a successful UpdateUser returns a record with the id and the createdAt of the
\* record the call read (and of the stored one it replaces) and an updatedAt not earlier
\* than that of the record it read; no step changes the id or the createdAt of a record
\* that stays live.
C8_UpdateImmutability ==
    [][ /\ \A p \in Procs :
             Leaves(p, "Update_Store")
             => /\ ret'[p].err = ErrNil
                /\ ret'[p].user.ID = existing[p].ID
                /\ ret'[p].user.ID = call[p].id
                /\ ret'[p].user.CreatedAt = existing[p].CreatedAt
                /\ ret'[p].user.UpdatedAt >= existing[p].UpdatedAt
                /\ users'[call[p].id] = ret'[p].user
        /\ \A i \in DOMAIN users \cap DOMAIN users' :
             /\ users'[i].ID = users[i].ID
             /\ users'[i].ID = i
             /\ users'[i].CreatedAt = users[i].CreatedAt ]_vars

\* an update has succeeded at a later clock reading than the creation
C8_Witness ==
    \E p \in Procs :
        /\ pc[p] = "idle"
        /\ call[p].op = "UpdateUser"
        /\ ret[p].err = ErrNil
        /\ ret[p].user.UpdatedAt > ret[p].user.CreatedAt
        /\ call[p].id \in DOMAIN users
        /\ users[call[p].id] = ret[p].user

\* C9: no step lowers the stored updatedAt of a record that stays live.
C9_UpdatedAtMonotonic ==
    [][ \A i \in DOMAIN users \cap DOMAIN users' :
          users'[i].UpdatedAt >= users[i].UpdatedAt ]_vars

\* C10: a DeleteUser that finds no live record with its id returns ErrNotFound and leaves
\* both maps as they were; an id that was deleted is not live again, so a second delete of
\* it is such a call.
C10_DeleteNotIdempotent ==
    [][ /\ \A p \in Procs :
             (Leaves(p, "Delete_Check") /\ call[p].id \notin DOMAIN users)
             => /\ pc'[p] = "idle"
                /\ ret'[p] = Ret(ErrNotFound, NilUser)
                /\ users' = users
                /\ emails' = emails
        /\ \A i \in IDs : delOk[i] > 0 => i \notin DOMAIN users' ]_vars

\* a second delete of a deleted id, issued after the first succeeded, returned ErrNotFound
C10_Witness ==
    \E p \in Procs :
        /\ pc[p] = "idle"
        /\ call[p].op = "DeleteUser"
        /\ call[p].gone
        /\ delOk[call[p].id] = 1
        /\ ret[p].err = ErrNotFound

\* the emails a stored record can have
StoredEmails == { NormalizedEmail(d.email) : d \in UserData }

\* C11: a successful delete leaves the deleted record's email out of the index; a
\* CreateUser that reaches the store when its normalized email is not indexed is not
\* refused, and when it returns, GetByEmail of that email answers the new record.
C11_EmailReuse ==
    [][ \A p \in Procs :
          /\ Leaves(p, "Delete_Index")
             => /\ ret'[p].err = ErrNil
                /\ old[p].Email \notin DOMAIN emails'
                /\ \A e \in StoredEmails : e = old[p].Email => GetByEmail(e)'.err = ErrNotFound
          /\ (Leaves(p, "Create_Check") /\ NormalizedEmail(call[p].email) \notin DOMAIN emails)
             => pc'[p] = "Create_Insert"
          /\ Leaves(p, "Create_Index")
             => /\ ret'[p].err = ErrNil
                /\ ret'[p].user.Email = NormalizedEmail(call[p].email)
                /\ \A e \in StoredEmails :
                      e = NormalizedEmail(call[p].email) => GetByEmail(e)' = ret'[p] ]_vars

\* a CreateUser has succeeded with the email of a record that was deleted before
C11_Witness ==
    \E p \in Procs : \E i \in DOMAIN created :
        /\ pc[p] = "idle"
        /\ call[p].op = "CreateUser"
        /\ ret[p].err = ErrNil
        /\ delOk[i] = 1
        /\ i # ret[p].user.ID
        /\ created[i].Email = ret[p].user.Email
        /\ GetByEmail(created[i].Email) = ret[p]

\* the update of p's call reaches the store with a new email indexed under another id
EmailOfOther(p) ==
    /\ call[p].id \in DOMAIN users
    /\ NormalizedEmail(call[p].email) \in DOMAIN emails
    /\ emails[NormalizedEmail(call[p].email)] # call[p].id

\* C12: an UpdateUser of a live record whose new normalized email is indexed under a
\* different id returns ErrAlreadyExists and no record, and leaves the primary map (the
\* record itself, the other record) and the whole email index as they were.
C12_UpdateDuplicateEmail ==
    [][ \A p \in Procs :
          (Leaves(p, "Update_Check") /\ EmailOfOther(p))
          => /\ pc'[p] = "idle"
             /\ ret'[p] = Ret(ErrAlreadyExists, NilUser)
             /\ users' = users
             /\ emails' = emails ]_vars

\* an update to the email of another live record was refused; both records are live
C12_Witness ==
    \E p \in Procs :
        /\ pc[p] = "idle"
        /\ call[p].op = "UpdateUser"
        /\ ret[p].err = ErrAlreadyExists
        /\ call[p].id \in DOMAIN users
        /\ \E j \in DOMAIN users :
            j # call[p].id /\ users[j].Email = NormalizedEmail(call[p].email)

\* the update of p's call reaches the store with the email the record already has
KeepsOwnEmail(p) ==
    /\ call[p].id \in DOMAIN users
    /\ users[call[p].id].Email = NormalizedEmail(call[p].email)

\* C13: an update of a live record that keeps the record's own normalized email is not
\* refused with ErrAlreadyExists: it goes from the check straight to the write of the
\* record, succeeds, and no step of it changes the email index.
C13_UpdateKeepsOwnEmail ==
    [][ \A p \in Procs :
          /\ (Leaves(p, "Update_Check") /\ KeepsOwnEmail(p))
             => /\ pc'[p] = "Update_Store"
                /\ emails' = emails
          /\ (Leaves(p, "Update_Store") /\ KeepsOwnEmail(p))
             => /\ ret'[p].err = ErrNil
                /\ emails' = emails
                /\ emails[ret'[p].user.Email] = call[p].id ]_vars

\* an update that changed the age and kept the email has succeeded
C13_Witness ==
    \E p \in Procs :
        /\ pc[p] = "idle"
        /\ call[p].op = "UpdateUser"
        /\ ret[p].err = ErrNil
        /\ call[p].id \in DOMAIN created
        /\ created[call[p].id].Email = ret[p].user.Email
        /\ created[call[p].id].Age # ret[p].user.Age

\* the places where a call looks at the maps
Observing ==
    { "GetByID_Read", "GetByEmail_Read", "GetAll_Read", "Count_Read", "Update_GetByID",
      "Create_Check", "Update_Check", "Delete_Check" }

\* the emails indexed for id i
IndexedFor(i) == { e \in DOMAIN emails : emails[e] = i }

\* C14: when a successful update that changes the email from e1 to e2 returns, GetByEmail(e1)
\* is ErrNotFound, GetByEmail(e2) is the updated record and e1 is free for a create; and
\* whenever a call looks at the maps, every live id has exactly one email indexed, the one
\* of its record (never both e1 and e2, never neither).
C14_AtomicEmailChange ==
    [][ \A p \in Procs :
          /\ (Leaves(p, "Update_Store") /\ old[p].Email # user[p].Email)
             => /\ ret'[p].err = ErrNil
                /\ \A e \in StoredEmails : e = old[p].Email => GetByEmail(e)'.err = ErrNotFound
                /\ \A e \in StoredEmails : e = user[p].Email => GetByEmail(e)' = ret'[p]
                /\ old[p].Email \notin DOMAIN emails'
                /\ IndexedFor(call[p].id)' = {user[p].Email}
          /\ (pc[p] \in Observing /\ pc'[p] # pc[p])
             => \A i \in DOMAIN users : IndexedFor(i) = {users[i].Email} ]_vars

\* an update has moved a record to another email
C14_Witness ==
    \E p \in Procs :
        /\ pc[p] = "idle"
        /\ call[p].op = "UpdateUser"
        /\ ret[p].err = ErrNil
        /\ call[p].id \in DOMAIN created
        /\ created[call[p].id].Email # ret[p].user.Email
        /\ GetByEmail(created[call[p].id].Email).err = ErrNotFound
        /\ GetByEmail(ret[p].user.Email) = ret[p]

\* C15: an UpdateUser that finds no live record with its id, at its read or at the store
\* update, returns ErrNotFound and no record and leaves both maps as they were.
C15_UpdateMissing ==
    [][ \A p \in Procs :
          ( /\ Leaves(p, "Update_GetByID") \/ Leaves(p, "Update_Check")
            /\ call[p].id \notin DOMAIN users )
          => /\ pc'[p] = "idle"
             /\ ret'[p] = Ret(ErrNotFound, NilUser)
             /\ users' = users
             /\ emails' = emails ]_vars

\* an update with valid data of an id that was never live has returned ErrNotFound
C15_Witness ==
    \E p \in Procs :
        /\ pc[p] = "idle"
        /\ call[p].op = "UpdateUser"
        /\ ValidationError(call[p]) = ErrNil
        /\ call[p].id \notin DOMAIN created
        /\ ret[p] = Ret(ErrNotFound, NilUser)
        /\ users # EmptyMap

\* the live records with email e
LiveWithEmail(e) == { i \in DOMAIN users : users[i].Email = e }

\* C16: a GetUser(id) returns ErrNotFound exactly when no live record has the id, and the
\* live record otherwise; a GetUserByEmail(e) returns ErrNotFound exactly when no live
\* record has the email e, and the live record with that email otherwise.
C16_ReadsFindLiveRecords ==
    [][ \A p \in Procs :
          /\ Leaves(p, "GetByID_Read")
             => /\ ret'[p].err = ErrNotFound <=> call[p].id \notin DOMAIN users
                /\ call[p].id \in DOMAIN users => ret'[p] = Ret(ErrNil, users[call[p].id])
          /\ Leaves(p, "GetByEmail_Read")
             => /\ ret'[p].err = ErrNotFound <=> LiveWithEmail(call[p].email) = {}
                /\ \A i \in LiveWithEmail(call[p].email) : ret'[p] = Ret(ErrNil, users[i]) ]_vars

\* a lookup by email has found a record and another has not
C16_Witness ==
    \E p, q \in Procs :
        /\ pc[p] = "idle" /\ pc[q] = "idle"
        /\ call[p].op = "GetUserByEmail"
        /\ call[q].op = "GetUserByEmail"
        /\ ret[p].err = ErrNil
        /\ ret[p].user.Email = call[p].email
        /\ ret[q].err = ErrNotFound

\* C17: a GetUserByEmail of an email whose normalized form is the email of a live record
\* (the email typed in another letter case, or with spaces around it) returns that record.
C17_LookupCaseInsensitive ==
    [][ \A p \in Procs :
          Leaves(p, "GetByEmail_Read")
          => \A i \in LiveWithEmail(NormalizedEmail(call[p].email)) :
                ret'[p] = Ret(ErrNil, users[i]) ]_vars

\* the sum of f over the ids 1..n
RECURSIVE SumTo(_, _)
SumTo(f, n) == IF n = 0 THEN 0 ELSE f[n] + SumTo(f, n - 1)

\* the numbers of successful creates and of successful deletes so far
NumCreated == Cardinality(DOMAIN created)
NumDeleted == SumTo(delOk, MaxCalls)

\* C18: a GetAllUsers returns one entry per live record, each equal to the stored record,
\* as many as Count answers at that instant; every record created and neither updated nor
\* deleted since is among them as CreateUser returned it, and their number is the number
\* of creates less the number of deletes.
C18_GetAllMatchesCount ==
    [][ \A p \in Procs :
          Leaves(p, "GetAll_Read")
          => /\ ret'[p].err = ErrNil
             /\ ret'[p].all = { users[i] : i \in DOMAIN users }
             /\ ret'[p].n = Cardinality(ret'[p].all)
             /\ ret'[p].n = Count.n
             /\ ret'[p].n = NumCreated - NumDeleted
             /\ \A i \in DOMAIN created :
                   (updOk[i] = 0 /\ delOk[i] = 0) => created[i] \in ret'[p].all ]_vars

\* a GetAllUsers has returned the two records created before it
C18_Witness ==
    \E p \in Procs :
        /\ pc[p] = "idle"
        /\ call[p].op = "GetAllUsers"
        /\ ret[p].n = 2
        /\ ret[p].all = { created[i] : i \in DOMAIN created }

\* C19: a successful delete of id removes the record of id from the primary map and the
\* entry of its email from the index and nothing else: every other record and every other
\* index entry stays as it was, and Count goes down by one.
C19_DeleteFrame ==
    [][ \A p \in Procs :
          /\ Leaves(p, "Delete_Remove")
             => /\ DOMAIN users' = DOMAIN users \ {call[p].id}
                /\ \A j \in DOMAIN users' : users'[j] = users[j] /\ GetByID(j)' = GetByID(j)
                /\ Count'.n = Count.n - 1
                /\ emails' = emails
          /\ Leaves(p, "Delete_Index")
             => /\ DOMAIN emails' = DOMAIN emails \ {old[p].Email}
                /\ \A e \in DOMAIN emails' : emails'[e] = emails[e]
                /\ \A j \in DOMAIN users : \A e \in StoredEmails :
                      e = users[j].Email => GetByEmail(e)' = Ret(ErrNil, users[j])
                /\ users' = users
                /\ ret'[p].err = ErrNil ]_vars

\* a delete has succeeded and another record is still live and indexed
C19_Witness ==
    \E p \in Procs : \E j \in DOMAIN users :
        /\ pc[p] = "idle"
        /\ call[p].op = "DeleteUser"
        /\ ret[p].err = ErrNil
        /\ j # call[p].id
        /\ GetByEmail(users[j].Email) = Ret(ErrNil, users[j])

\* C20: whenever no mutation is inside its critical section, Count is the number of
\* successful creates less the number of successful deletes; once every created record
\* has been deleted, Count is 0 and GetAll is empty.
C20_CountIsCreatesMinusDeletes ==
    mu.w = 0 =>
        /\ Count.n = NumCreated - NumDeleted
        /\ NumCreated = NumDeleted => (Count.n = 0 /\ GetAll.all = {} /\ GetAll.n = 0)

\* two creates and one delete have succeeded and no mutation is in its critical section
C20_Witness ==
    /\ mu.w = 0
    /\ NumCreated = 2
    /\ NumDeleted = 1
    /\ Count.n = 1

\* the calls issued are one CreateUser per goroutine on an empty store, all returned,
\* with valid data, distinct ids and pairwise distinct normalized emails
C21_Batch ==
    /\ calls = NumProcs
    /\ \A p \in Procs :
        /\ pc[p] = "idle"
        /\ call[p].op = "CreateUser"
        /\ ValidationError(call[p]) = ErrNil
    /\ \A p, q \in Procs :
        p # q => /\ NormalizedEmail(call[p].email) # NormalizedEmail(call[q].email)
                 /\ call[p].id # call[q].id

\* C21: when every goroutine has issued one CreateUser, with valid data, distinct ids and
\* pairwise distinct normalized emails, and all have returned, every call returned nil and
\* its record, the returned ids are pairwise distinct, and Count is the number of calls,
\* however the calls interleaved.
C21_ConcurrentDistinctCreates ==
    C21_Batch =>
        /\ \A p \in Procs : ret[p].err = ErrNil /\ ret[p].user.ID = call[p].id
        /\ \A p, q \in Procs : p # q => ret[p].user.ID # ret[q].user.ID
        /\ Count.n = NumProcs
        /\ GetAll.all = { ret[p].user : p \in Procs }

\* the batch has been run and every goroutine holds its own record
C21_Witness ==
    /\ C21_Batch
    /\ \A p \in Procs : GetByID(call[p].id) = ret[p]

\* the read calls of the service, and the places of their steps
ReadOps == { "GetUser", "GetUserByEmail", "GetAllUsers", "CountUsers" }
ReadPcs == { "GetByID_RLock", "GetByID_Read", "GetByEmail_RLock", "GetByEmail_Read",
             "GetAll_RLock", "GetAll_Read", "Count_RLock", "Count_Read" }

\* C22: no step of a read call (its issue, its RLock, its read and return) changes the
\* primary map or the email index; a GetUser of a live id returns the record that the
\* last successful create or update of the id returned, so reads with no mutation between
\* them return identical data, and a reader that is inside GetByID with the same id at the
\* same time will be answered the same.
C22_ReadsChangeNothing ==
    [][ \A p \in Procs :
          /\ (call'[p] # call[p] /\ call'[p].op \in ReadOps)
             => (users' = users /\ emails' = emails)
          /\ (pc[p] \in ReadPcs /\ pc'[p] # pc[p])
             => (users' = users /\ emails' = emails)
          /\ (Leaves(p, "GetByID_Read") /\ call[p].id \in DOMAIN users)
             => /\ call[p].id \in DOMAIN written
                /\ ret'[p] = Ret(ErrNil, written[call[p].id])
                /\ \A q \in Procs : \A i \in IDs :
                      (pc[q] = "GetByID_Read" /\ call[q].id = i /\ call[p].id = i)
                      => GetByID(i)' = ret'[p] ]_vars

\* two goroutines have read the same live record and hold identical data
C22_Witness ==
    \E p, q \in Procs :
        /\ p # q
        /\ pc[p] = "idle" /\ pc[q] = "idle"
        /\ call[p].op = "GetUser" /\ call[q].op = "GetUser"
        /\ call[p].id = call[q].id
        /\ call[p].id \in DOMAIN written
        /\ ret[p] = Ret(ErrNil, written[call[p].id])
        /\ ret[q] = ret[p]

\* the places between Lock and Unlock of Create, Update and Delete
WritePcs == { "Create_Check", "Create_Insert", "Create_Index",
              "Update_Check", "Update_Unindex", "Update_Index", "Update_Store",
              "Delete_Check", "Delete_Remove", "Delete_Index" }

\* the places between RLock and RUnlock of GetByID, GetByEmail, GetAll and Count
InsideReadPcs == { "GetByID_Read", "GetByEmail_Read", "GetAll_Read", "Count_Read",
                   "Update_GetByID" }

\* C23: in no state is a goroutine between Lock and Unlock of Create, Update or Delete
\* while another goroutine is between Lock and Unlock, or between RLock and RUnlock, of
\* any operation; the mutex records exactly the goroutines that are inside.  (That two
\* readers can be inside together is the reachable state C23_Witness.)
C23_LockDiscipline ==
    /\ \A p, q \in Procs :
          (p # q /\ pc[p] \in WritePcs) => pc[q] \notin WritePcs \cup InsideReadPcs
    /\ \A p \in Procs :
          /\ pc[p] \in WritePcs <=> mu.w = p
          /\ pc[p] \in InsideReadPcs <=> p \in mu.r

\* two goroutines are between RLock and RUnlock at the same time, on a store with a record
C23_Witness ==
    \E p, q \in Procs :
        /\ p # q
        /\ pc[p] \in InsideReadPcs
        /\ pc[q] \in InsideReadPcs
        /\ users # EmptyMap

\* the two maps agree: every record's email is indexed to its id, and every index entry
\* leads to a record with that email
MapsAgree ==
    /\ \A i \in DOMAIN users :
          users[i].Email \in DOMAIN emails /\ emails[users[i].Email] = i
    /\ \A e \in DOMAIN emails :
          emails[e] \in DOMAIN users /\ users[emails[e]].Email = e

\* C24: whenever a goroutine is between RLock and RUnlock of GetByID, GetByEmail, GetAll
\* or Count, the primary map and the email index agree: no record without its index entry,
\* no index entry without its record, whatever creates, updates and deletes are under
\* way in other goroutines.
C24_ReadsSeeWholeMutations ==
    (\E p \in Procs : pc[p] \in InsideReadPcs) => MapsAgree

\* a goroutine is reading a store with a record while another is in the middle of a
\* mutating call, waiting for the lock
C24_Witness ==
    \E p, q \in Procs :
        /\ pc[p] \in InsideReadPcs
        /\ pc[q] \in { "Create_Lock", "Update_Lock", "Delete_Lock" }
        /\ users # EmptyMap

\* C30: in every state with no goroutine between Lock and Unlock, emails[e] = i holds
\* exactly when record i exists and has email e; the two maps have the same size, and
\* GetByEmail never reaches an id that the primary map lacks.
C30_IndexConsistency ==
    mu.w = 0 =>
        /\ \A e \in EmailArgs : \A i \in IDs :
              (e \in DOMAIN emails /\ emails[e] = i)
              <=> (i \in DOMAIN users /\ users[i].Email = e)
        /\ DOMAIN emails \subseteq EmailArgs
        /\ Cardinality(DOMAIN emails) = Cardinality(DOMAIN users)
        /\ \A e \in EmailArgs : GetByEmail(e).err # "panic"

\* outside the critical sections, two records are live and one has changed its email
C30_Witness ==
    /\ mu.w = 0
    /\ Cardinality(DOMAIN users) = 2
    /\ \E i \in DOMAIN users : users[i].Email # created[i].Email

\* C28: the record that a successful CreateUser or UpdateUser returns, and the record it
\* stores, has the trimmed, lower-cased input email as its email and the trimmed input
\* name as its name.
C28_NormalizedBeforeStorage ==
    [][ \A p \in Procs :
          (Leaves(p, "Create_Index") \/ Leaves(p, "Update_Store"))
          => /\ ret'[p].err = ErrNil
             /\ ret'[p].user.Email = TrimSpace(ToLower(call[p].email))
             /\ ret'[p].user.Name = TrimSpace(call[p].name)
             /\ ret'[p].user.Age = call[p].age
             /\ call[p].id \in DOMAIN users'
             /\ users'[call[p].id] = ret'[p].user ]_vars

\* an update typed with spaces and capitals has succeeded and is stored normalized
C28_Witness ==
    \E p \in Procs :
        /\ pc[p] = "idle"
        /\ call[p].op = "UpdateUser"
        /\ ret[p].err = ErrNil
        /\ call[p].name # ret[p].user.Name
        /\ call[p].email # ret[p].user.Email
        /\ call[p].id \in DOMAIN users
        /\ users[call[p].id] = ret[p].user

\* record u carries the name, email and age of one call's data, normalized
OneCallsData(u) ==
    \E d \in UserData :
        /\ u.Name = TrimSpace(d.name)
        /\ u.Email = TrimSpace(ToLower(d.email))
        /\ u.Age = d.age

\* C29: in every state with no goroutine between Lock and Unlock, the record a reader
\* gets for a live id is the whole record that the last successful create or update of
\* the id returned, with the name, email and age of that one call and never a mix of two
\* calls' fields; an id whose delete succeeded has no record.
C29_LastWriteIsVisible ==
    mu.w = 0 =>
        /\ \A i \in DOMAIN users :
              /\ i \in DOMAIN written
              /\ users[i] = written[i]
              /\ GetByID(i) = Ret(ErrNil, written[i])
              /\ OneCallsData(users[i])
        /\ \A i \in IDs : delOk[i] > 0 => GetByID(i).err = ErrNotFound

\* two updates of one record have succeeded and the record is the last one's
C29_Witness ==
    \E i \in DOMAIN users :
        /\ mu.w = 0
        /\ updOk[i] = 2
        /\ users[i] = written[i]
        /\ users[i].Age # created[i].Age

\* goroutine p has validated a candidate
Validated(p) == pc[p] = "idle" /\ call[p].op = "Validate"

\* C26: for a candidate whose name and email are valid, Validate returns nil exactly when
\* 1 <= age <= 150 and ErrInvalidUserAge otherwise: 0, 151 and the negative ages are
\* refused, 1 and 150 accepted.
C26_AgeRange ==
    \A p \in Procs :
        (Validated(p) /\ ValidationError([call[p] EXCEPT !.age = 30]) = ErrNil)
        => /\ ret[p].err = ErrNil <=> (1 <= call[p].age /\ call[p].age <= 150)
           /\ ret[p].err \in {ErrNil, ErrInvalidUserAge}
           /\ call[p].age \in {0, 151} => ret[p].err = ErrInvalidUserAge
           /\ call[p].age < 0 => ret[p].err = ErrInvalidUserAge
           /\ call[p].age \in {1, 150} => ret[p].err = ErrNil

\* a candidate with a valid name and email and the age 151 has been refused for its age
C26_Witness ==
    \E p \in Procs :
        /\ Validated(p)
        /\ call[p].age = 151
        /\ ret[p].err = ErrInvalidUserAge

\* the name is a run of letters with white space before and after it only
OnlyLetters(s) ==
    /\ \A i \in 1..Len(s) : s[i] \in Letters \cup WhiteSpace
    /\ \A i \in 1..(Len(s) - 1) :
          (s[i] \in WhiteSpace /\ s[i + 1] \in Letters) => \A j \in 1..i : s[j] \in WhiteSpace

\* the number of letters of the name
NumLetters(s) == Cardinality({ i \in 1..Len(s) : s[i] \in Letters })

\* C27: a name made of letters only, with white space around it or not, is trimmed and
\* then passes the name check exactly when the trimmed name has 2 to 50 letters; with 0,
\* 1 or 51 and more letters Validate returns ErrInvalidUserName.
C27_NameLength ==
    \A p \in Procs :
        (Validated(p) /\ OnlyLetters(call[p].name))
        => /\ ret[p].err # ErrInvalidUserName
              <=> (2 <= NumLetters(call[p].name) /\ NumLetters(call[p].name) <= 50)
           /\ Len(user[p].Name) = NumLetters(call[p].name)
           /\ \A i \in 1..Len(user[p].Name) : user[p].Name[i] \in Letters

\* a name of 50 letters with white space around it has passed the name check
C27_Witness ==
    \E p \in Procs :
        /\ Validated(p)
        /\ Len(call[p].name) > 50
        /\ NumLetters(call[p].name) = 50
        /\ ret[p].err = ErrNil

\* what the reads of the store return: the contents of the stored objects, by id and by
\* indexed email
StoredByID == [ i \in DOMAIN ptrs |-> heap[ptrs[i]] ]
StoredByEmail == [ e \in DOMAIN emails |-> heap[ptrs[emails[e]]] ]

\* C25: no caller holds the address of an object of the store, whether the caller got the
\* object from CreateUser or UpdateUser (the object handed to Create or Update) or from
\* GetUser, GetUserByEmail or GetAllUsers; so a step in which a caller writes into an
\* object it holds leaves what reads by id and by email return as it was.
C25_CopiesAreIndependent ==
    [][ /\ \A i \in DOMAIN ptrs : ptrs[i] \notin held
        /\ (DOMAIN heap' = DOMAIN heap /\ heap' # heap)
           => /\ StoredByID' = StoredByID
              /\ StoredByEmail' = StoredByEmail ]_vars

\* a caller has overwritten the age of the object CreateUser or UpdateUser gave it, and of
\* one a read gave it, and the store still has the record with its own age
C25_Witness ==
    \E i \in DOMAIN ptrs : \E a, b \in held :
        /\ a # b
        /\ heap[a].ID = i /\ heap[b].ID = i
        /\ heap[a].Age = Scribble.Age
        /\ heap[b].Age = Scribble.Age
        /\ heap[ptrs[i]].Age # Scribble.Age

\* C37: validating again a record that has passed Validate returns nil and leaves its
\* name, email and age (and every other field) as they were.
C37_ValidateIdempotent ==
    [][ \A p \in Procs :
          (pc[p] = "idle" /\ pc'[p] = "Validate_Again")
          => /\ ret'[p].err = ErrNil
             /\ user'[p].Name = user[p].Name
             /\ user'[p].Email = user[p].Email
             /\ user'[p].Age = user[p].Age
             /\ user'[p] = user[p] ]_vars

\* a record whose name and email were normalized by the first Validate has passed the
\* second one
C37_Witness ==
    \E p \in Procs :
        /\ pc[p] = "Validate_Again"
        /\ ret[p].err = ErrNil
        /\ user[p].Name # call[p].name
        /\ user[p].Email # call[p].email

\* the trimmed name t has a place with two spaces in a row
DoubleSpace(t) == \E i \in 1..(Len(t) - 1) : t[i] = " " /\ t[i + 1] = " "

\* the trimmed name t starts and ends with a letter, has 2 to 50 characters, and only
\* letters and spaces in between
LettersAndSpaces(t) ==
    /\ Len(t) >= 2
    /\ Len(t) <= 50
    /\ t[1] \in Letters
    /\ t[Len(t)] \in Letters
    /\ \A i \in 1..Len(t) : t[i] \in Letters \cup {" "}

\* C38 as stated: a name passes the name check only if it starts and ends with a letter
\* and its interior is made of letters and single spaces; a name with two consecutive
\* interior spaces is refused with ErrInvalidUserName.
C38_SingleSpacesOnly ==
    \A p \in Procs :
        Validated(p)
        => /\ ret[p].err # ErrInvalidUserName
              => (LettersAndSpaces(user[p].Name) /\ ~DoubleSpace(user[p].Name))
           /\ DoubleSpace(user[p].Name) => ret[p].err = ErrInvalidUserName

\* C38, amended: a trimmed name passes the name check exactly when it has 2 to 50
\* characters, starts and ends with a letter and has only letters and spaces in between,
\* any number of them in a row; a name with a digit or a symbol is refused with
\* ErrInvalidUserName.
C38_LettersAndSpaces ==
    \A p \in Procs :
        Validated(p)
        => /\ ret[p].err # ErrInvalidUserName <=> LettersAndSpaces(user[p].Name)
           /\ (\E i \in 1..Len(user[p].Name) : user[p].Name[i] \notin Letters \cup {" "})
              => ret[p].err = ErrInvalidUserName

\* the name "A  B", with two spaces in a row, has passed Validate
C38_Witness ==
    \E p \in Procs :
        /\ Validated(p)
        /\ DoubleSpace(user[p].Name)
        /\ ret[p].err = ErrNil

\* the name, and the email, of the call taken alone: the error with the other fields valid
NameError(c) == ValidationError([c EXCEPT !.email = << "a", "@", "b", ".", "i", "o" >>, !.age = 30])
EmailError(c) == ValidationError([c EXCEPT !.name = << "J", "o" >>, !.age = 30])

\* C40: a candidate whose name is invalid is refused with ErrInvalidUserName whatever its
\* email and age; one whose name is valid and whose email is invalid is refused with
\* ErrInvalidUserEmail whatever its age.
C40_ValidationOrder ==
    \A p \in Procs :
        Validated(p)
        => /\ NameError(call[p]) # ErrNil => ret[p].err = ErrInvalidUserName
           /\ (NameError(call[p]) = ErrNil /\ EmailError(call[p]) # ErrNil)
              => ret[p].err = ErrInvalidUserEmail

\* a candidate with an invalid name, an invalid email and an invalid age was refused for
\* its name
C40_Witness ==
    \E p \in Procs :
        /\ Validated(p)
        /\ NameError(call[p]) = ErrInvalidUserName
        /\ EmailError(call[p]) = ErrInvalidUserEmail
        /\ call[p].age > 150
        /\ ret[p].err = ErrInvalidUserName

\* C35: every live record has an updatedAt that is not earlier than its createdAt, in
\* every state: right after its creation and after every successful update, with a clock
\* that never goes back.
C35_UpdatedAtNotBeforeCreatedAt ==
    \A i \in DOMAIN users : users[i].UpdatedAt >= users[i].CreatedAt

\* a record created after the clock's first tick was updated at a later tick and is live
C35_Witness ==
    \E i \in DOMAIN users :
        /\ updOk[i] > 0
        /\ users[i].CreatedAt > 0
        /\ users[i].UpdatedAt > users[i].CreatedAt

\* record u satisfies the validation contract
MeetsContract(u) ==
    /\ u.Name = TrimSpace(u.Name)
    /\ Len(u.Name) >= 2
    /\ Len(u.Name) <= 50
    /\ nameRegex(u.Name)
    /\ u.Email = TrimSpace(ToLower(u.Email))
    /\ emailRegex(u.Email)
    /\ u.Age >= 1
    /\ u.Age <= 150

\* C36: every live record, in every state that CreateUser, UpdateUser and DeleteUser
\* calls reach, has a trimmed name of 2 to 50 characters that matches the name pattern, a
\* trimmed, lower-cased email that matches the email pattern, and an age from 1 to 150.
C36_LiveRecordsMeetContract ==
    \A i \in DOMAIN users : MeetsContract(users[i])

\* two records are live, one of them rewritten by an update with another name
C36_Witness ==
    /\ Cardinality(DOMAIN users) = 2
    /\ \E i \in DOMAIN users : updOk[i] > 0 /\ users[i].Name # created[i].Name

\* C34: an update never brings a deleted record back. Once a DeleteUser(id) has succeeded,
\* in every later state no record is live under the id, GetByID(id) fails with
\* ErrNotFound and no index entry points to the id; and an UpdateUser(id) that reaches
\* its read or its store update after the delete succeeded, also one that read the record
\* before the delete, returns ErrNotFound and leaves both maps as they were.
C34_NoResurrection ==
    [][ /\ \A i \in IDs :
             delOk'[i] > 0
             => /\ i \notin DOMAIN users'
                /\ GetByID(i)'.err = ErrNotFound
                /\ \A e \in DOMAIN emails' : emails'[e] # i
        /\ \A p \in Procs :
             ( /\ Leaves(p, "Update_GetByID") \/ Leaves(p, "Update_Check")
               /\ delOk[call[p].id] > 0 )
             => /\ pc'[p] = "idle"
                /\ ret'[p] = Ret(ErrNotFound, NilUser)
                /\ users' = users
                /\ emails' = emails ]_vars

\* an UpdateUser read the live record, a DeleteUser of the id then succeeded, and the
\* update is at its store update, inside the lock
C34_Witness ==
    \E p \in Procs :
        /\ pc[p] = "Update_Check"
        /\ mu.w = p
        /\ existing[p].ID = call[p].id
        /\ user[p].ID = call[p].id
        /\ delOk[call[p].id] = 1
        /\ call[p].id \notin DOMAIN users

\* the steps of UpdateUser, from its issue to its return
UpdatePcs == {"Update_RLock", "Update_GetByID", "Update_Build", "Update_Lock",
              "Update_Check", "Update_Unindex", "Update_Index", "Update_Store"}

\* C32 as stated: every UpdateUser whose data fails validation returns the validation
\* error, whether or not a record is live under its id.
C32_UpdateValidatesFirst ==
    [][ \A p \in Procs :
          ( /\ pc[p] \in UpdatePcs
            /\ pc'[p] = "idle"
            /\ ValidationError(call[p]) # ErrNil )
          => ret'[p] = Ret(ValidationError(call[p]), NilUser) ]_vars

\* C32, amended: CreateUser validates before it calls the store: with invalid data it
\* returns the validation error without taking the lock. UpdateUser reads the record
\* first: with no live record at its read it returns ErrNotFound whatever its data; with
\* a live record and invalid data it returns the validation error, and it never reaches
\* the store's Update.
C32_UpdateReadsThenValidates ==
    [][ \A p \in Procs :
          /\ (IssuesCreate(p) /\ ValidationError(call'[p]) # ErrNil)
             => /\ pc'[p] = "idle"
                /\ ret'[p] = Ret(ValidationError(call'[p]), NilUser)
                /\ mu' = mu
          /\ (Leaves(p, "Update_GetByID") /\ call[p].id \notin DOMAIN users)
             => /\ pc'[p] = "idle"
                /\ ret'[p] = Ret(ErrNotFound, NilUser)
          /\ ( /\ Leaves(p, "Update_GetByID")
               /\ call[p].id \in DOMAIN users
               /\ ValidationError(call[p]) # ErrNil )
             => pc'[p] = "Update_Build"
          /\ (Leaves(p, "Update_Build") /\ ValidationError(call[p]) # ErrNil)
             => /\ pc'[p] = "idle"
                /\ ret'[p] = Ret(ValidationError(call[p]), NilUser)
          /\ (pc[p] # "Update_Lock" /\ pc'[p] = "Update_Lock")
             => ValidationError(call[p]) = ErrNil ]_vars

\* an UpdateUser with data that fails validation, of an id that was never live, has
\* returned ErrNotFound
C32_Witness ==
    \E p \in Procs :
        /\ pc[p] = "idle"
        /\ call[p].op = "UpdateUser"
        /\ ValidationError(call[p]) # ErrNil
        /\ call[p].id \notin DOMAIN created
        /\ ret[p] = Ret(ErrNotFound, NilUser)

\* C33: a Create of the repository whose record has an id that is already present
\* returns ErrAlreadyExists and no record, whether or not its email is indexed, and the
\* step changes neither map: the record under the id stays and the new email is not
\* indexed.
C33_CreateExistingID ==
    [][ \A p \in Procs :
          (Leaves(p, "Create_Check") /\ user[p].ID \in DOMAIN users)
          => /\ pc'[p] = "idle"
             /\ ret'[p] = Ret(ErrAlreadyExists, NilUser)
             /\ users' = users
             /\ emails' = emails
             /\ mu'.w = 0 ]_vars

\* a Create with the id of a live record and an email that is not indexed has been
\* refused; the live record and the index are as the first Create left them
C33_Witness ==
    \E p \in Procs :
        /\ pc[p] = "idle"
        /\ call[p].op = "Create"
        /\ ret[p] = Ret(ErrAlreadyExists, NilUser)
        /\ call[p].id \in DOMAIN users
        /\ NormalizedEmail(call[p].email) \notin DOMAIN emails
        /\ users[call[p].id] = created[call[p].id]
        /\ emails = [e \in {users[call[p].id].Email} |-> call[p].id]

\* what the caller sees of a sequential answer
RetOf(sq) == [err |-> sq.err, user |-> sq.user, all |-> sq.all, n |-> sq.n]

\* goroutine p's call of the repository returns in this step with the answer sq.err,
\* sq.user, sq.all, sq.n, and the calls that have taken effect so far, this one included,
\* leave the maps sq.store
TakesEffectAs(p, sq) == ret'[p] = RetOf(sq) /\ abs' = sq.store

\* the steps at which a goroutine waits for the lock
LockPcs == {"Create_Lock", "Update_Lock", "Delete_Lock", "Update_RLock", "GetByID_RLock",
            "GetByEmail_RLock", "GetAll_RLock", "Count_RLock"}

\* C31: the repository is linearizable. Every call of Create, Update, Delete, GetByID,
\* GetByEmail, GetAll and Count takes effect at one step between its invocation and its
\* return (the step that releases the lock): at that step it returns what the same call
\* returns when the calls that took effect before it are run one after another with no
\* concurrency, and whenever no writer is inside, the two maps are the maps that this
\* sequential execution leaves.
C31_Linearizable ==
    [][ /\ (mu.w = 0 => (users = abs.users /\ emails = abs.emails))'
        /\ \A p \in Procs :
             /\ (Leaves(p, "Create_Check") /\ pc'[p] = "idle")
                => TakesEffectAs(p, SeqCreate(abs, user[p]))
             /\ Leaves(p, "Create_Index")
                => TakesEffectAs(p, SeqCreate(abs, user[p]))
             /\ (Leaves(p, "Update_GetByID") /\ pc'[p] = "idle")
                => TakesEffectAs(p, SeqGetByID(abs, call[p].id))
             /\ (Leaves(p, "Update_GetByID") /\ pc'[p] # "idle")
                => /\ SeqGetByID(abs, call[p].id).err = ErrNil
                   /\ existing'[p] = SeqGetByID(abs, call[p].id).user
                   /\ abs' = abs
             /\ (Leaves(p, "Update_Check") /\ pc'[p] = "idle")
                => TakesEffectAs(p, SeqUpdate(abs, user[p]))
             /\ Leaves(p, "Update_Store")
                => TakesEffectAs(p, SeqUpdate(abs, user[p]))
             /\ (Leaves(p, "Delete_Check") /\ pc'[p] = "idle")
                => TakesEffectAs(p, SeqDelete(abs, call[p].id))
             /\ Leaves(p, "Delete_Index")
                => TakesEffectAs(p, SeqDelete(abs, call[p].id))
             /\ Leaves(p, "GetByID_Read")
                => TakesEffectAs(p, SeqGetByID(abs, call[p].id))
             /\ Leaves(p, "GetByEmail_Read")
                => TakesEffectAs(p, SeqGetByEmail(abs, call[p].email))
             /\ Leaves(p, "GetAll_Read")
                => TakesEffectAs(p, SeqGetAll(abs))
             /\ Leaves(p, "Count_Read")
                => TakesEffectAs(p, SeqCount(abs)) ]_vars

\* a record is live, a writer is between its Lock and its Unlock with one of the maps
\* already changed, and another goroutine's call waits for the lock
C31_Witness ==
    \E p \in Procs : \E q \in Procs \ {p} :
        /\ abs.users # EmptyMap
        /\ mu.w = p
        /\ << users, emails >> # << abs.users, abs.emails >>
        /\ pc[q] \in LockPcs

\* C39: every call returns. Under fair scheduling every behaviour reaches a state from
\* which on no goroutine is inside a call: each of the calls issued (their number is
\* bounded) has returned, whatever the other goroutines did, so no set of concurrent
\* calls deadlocks and no call retries for ever. A goroutine takes the write lock only
\* when it holds neither lock, the read lock only when it holds neither, and a goroutine
\* that has returned, with a result or with any error, holds no lock.
C39_EveryCallReturns ==
    /\ <>[](\A p \in Procs : pc[p] = "idle")
    /\ [][ \A p \in Procs :
             /\ (mu'.w = p /\ mu.w # p) => (p \notin mu.r /\ pc[p] \in LockPcs)
             /\ (p \in mu'.r /\ p \notin mu.r) => (mu.w # p /\ pc[p] \in LockPcs)
             /\ pc'[p] = "idle" => (mu'.w # p /\ p \notin mu'.r) ]_vars

\* a DeleteUser of an id with no record is inside the lock, about to return ErrNotFound,
\* and the other goroutine's call waits for the lock
C39_Witness ==
    \E p \in Procs : \E q \in Procs \ {p} :
        /\ pc[p] = "Delete_Check"
        /\ mu.w = p
        /\ call[p].id \notin DOMAIN users
        /\ pc[q] \in LockPcs
        /\ users # EmptyMap

====
